---- MODULE Spec2Model ----
(***************************************************************************)
(* Model of the audio-chunking and transcription pipeline of audiomax      *)
(* (services/geminiService.ts).  Text is modelled at character level: a    *)
(* string is a sequence of one-character strings, so that the JSON repair  *)
(* heuristic and the timestamp arithmetic work on what the code works on.  *)
(***************************************************************************)
EXTENDS Integers, Sequences, FiniteSets, TLC

VARIABLES
    pc,                 \* position of the transcribeAudio run
    ai,                 \* TRUE iff the module-level client was constructed
    length,             \* audioBuffer.length (sample frames of the decoded audio)
    sampleRate,         \* audioBuffer.sampleRate
    numberOfChunks,     \* transcribeAudio: numberOfChunks
    i,                  \* transcribeAudio: loop index
    combinedTranscript, \* transcribeAudio: combinedTranscript
    segments,           \* history: the windows of the chunks that were sliced
    progress,           \* history: the messages handed to onProgress
    requests,           \* history: chunk indices submitted to generateContent
    inFlight,           \* chunk indices whose generateContent call is pending
    alerts,             \* history: chunk indices for which alert() was called
    events,             \* history: order of progress / request / response
    chunkLog,           \* history: what transcribeAudioChunk returned per chunk
    result,             \* the settled promise of transcribeAudio
    jsonText,           \* repairAndParseJsonArray: its argument
    srcLines,           \* the array the model was writing when it was cut
    cutAt,              \* how many characters of it arrived
    repaired,           \* repairAndParseJsonArray: its outcome
    onProgressMay,      \* what the onProgress argument may do: "return" or "throw"
    sumOp,              \* one call of generateMeetingSummary or translateSummary
    recIn,              \* timestamp rewrite: the chunkTranscript it is applied to
    recStart,           \* timestamp rewrite: chunkStartTimeSeconds
    recOut,             \* timestamp rewrite: what the map produced
    currentUser,        \* App: currentUser state
    storedUsers,        \* authService: the meetings stored per user email
    currentPage,        \* App: currentPage state
    selectedMeeting,    \* App: selectedMeeting state
    upload,             \* App: the handleUploadAndProcess call
    translation,        \* App: the handleTranslateMeeting call
    nextId,             \* App: the clock behind the new meeting's id
    wavBuffer,          \* bufferToWav: its argument
    wavBlob,            \* bufferToWav: the bytes of the blob it returns
    chunkResponse,      \* transcribeAudioChunk: what generateContent settled with
    chunkResult,        \* transcribeAudioChunk: its outcome
    audio,              \* the slicing of transcribeAudio: the decoded buffer
    sliced,             \* the slicing of transcribeAudio: the chunk buffers made
    authData,           \* authService: the AppData in localStorage
    authResult          \* authService: what the last call returned

vars == <<pc, ai, length, sampleRate, numberOfChunks, i, combinedTranscript,
          segments, progress, requests, inFlight, alerts, events, chunkLog,
          result, jsonText, srcLines, cutAt, repaired, onProgressMay, sumOp,
          recIn, recStart, recOut, currentUser, storedUsers, currentPage,
          selectedMeeting, upload, translation, nextId, wavBuffer, wavBlob,
          chunkResponse, chunkResult, audio, sliced, authData, authResult>>

orchVars == <<pc, ai, length, sampleRate, numberOfChunks, i, combinedTranscript,
              segments, progress, requests, inFlight, alerts, events, chunkLog,
              result, onProgressMay>>

repairVars == <<jsonText, srcLines, cutAt, repaired>>

recVars == <<recIn, recStart, recOut>>

appVars == <<currentUser, storedUsers, currentPage, selectedMeeting, upload,
             translation, nextId>>

wavVars == <<wavBuffer, wavBlob>>

chunkVars == <<chunkResponse, chunkResult>>

sliceVars == <<audio, sliced>>

authVars == <<authData, authResult>>

\* the functions that are looked at on their own
unitVars == <<wavVars, chunkVars, sliceVars, authVars>>

\* what a run of transcribeAudio leaves alone
besideTranscribe == <<onProgressMay, repairVars, sumOp, recVars, appVars, unitVars>>

\* bufferToWav is not under way
WavIdle == wavBuffer = <<>> /\ wavBlob = <<>>

\* transcribeAudioChunk on its own is not under way
ChunkIdle == chunkResponse = <<>> /\ chunkResult = <<>>

\* the slicing on its own is not under way
SliceIdle == audio = <<>> /\ sliced = <<>>

\* the user store is not looked at
AuthIdle == authData = <<>> /\ authResult = <<>>

(***************************************************************************)
(* Bounds                                                                  *)
(***************************************************************************)
MaxLength == 130
MaxSampleRate == 2
MaxObjects == 2

(***************************************************************************)
(* Strings                                                                 *)
(***************************************************************************)
DQ == "\""

Min(a, b) == IF a < b THEN a ELSE b
Max(a, b) == IF a > b THEN a ELSE b

\* String.prototype.lastIndexOf(c): 0-based index of the last c, -1 if none
RECURSIVE LastFrom(_, _, _)
LastFrom(s, c, k) ==
    IF k = 0 THEN -1
    ELSE IF s[k] = c THEN k - 1
    ELSE LastFrom(s, c, k - 1)

lastIndexOf(s, c) == LastFrom(s, c, Len(s))

\* String.prototype.substring(a, b), 0-based, arguments clamped to 0..length
substring(s, a, b) ==
    LET lo == Max(0, Min(Min(a, b), Len(s)))
        hi == Max(0, Min(Max(a, b), Len(s)))
    IN  SubSeq(s, lo + 1, hi)

RECURSIVE TrimStart(_)
TrimStart(s) ==
    IF s # <<>> /\ Head(s) = " " THEN TrimStart(Tail(s)) ELSE s

RECURSIVE TrimEnd(_)
TrimEnd(s) ==
    IF s # <<>> /\ s[Len(s)] = " " THEN TrimEnd(SubSeq(s, 1, Len(s) - 1)) ELSE s

\* String.prototype.trim()
trim(s) == TrimEnd(TrimStart(s))

startsWith(s, c) == s # <<>> /\ Head(s) = c

\* s.replace(/,\]$/, ']')
replaceCommaBracketAtEnd(s) ==
    IF Len(s) >= 2 /\ s[Len(s) - 1] = "," /\ s[Len(s)] = "]"
    THEN SubSeq(s, 1, Len(s) - 2) \o <<"]">>
    ELSE s

(***************************************************************************)
(* JSON.parse, for the JSON built from strings, arrays and objects         *)
(***************************************************************************)
NoValue == [t |-> "none", v |-> <<>>]
ParseFail == [ok |-> FALSE, val |-> NoValue, pos |-> 0]

RECURSIVE SkipWs(_, _)
SkipWs(s, k) ==
    IF k <= Len(s) /\ s[k] = " " THEN SkipWs(s, k + 1) ELSE k

\* position of the quote that closes a string whose content starts at k, or 0
RECURSIVE StringEnd(_, _)
StringEnd(s, k) ==
    IF k > Len(s) THEN 0
    ELSE IF s[k] = DQ THEN k
    ELSE StringEnd(s, k + 1)

RECURSIVE ParseValue(_, _), ArrayTail(_, _, _), MembersTail(_, _, _)
ParseValue(s, k0) ==
    LET k == SkipWs(s, k0) IN
    IF k > Len(s) THEN ParseFail
    ELSE IF s[k] = DQ THEN
        LET e == StringEnd(s, k + 1) IN
        IF e = 0 THEN ParseFail
        ELSE [ok |-> TRUE, val |-> [t |-> "str", v |-> SubSeq(s, k + 1, e - 1)],
              pos |-> e + 1]
    ELSE IF s[k] = "[" THEN
        LET n == SkipWs(s, k + 1) IN
        IF n <= Len(s) /\ s[n] = "]"
        THEN [ok |-> TRUE, val |-> [t |-> "arr", v |-> <<>>], pos |-> n + 1]
        ELSE ArrayTail(s, n, <<>>)
    ELSE IF s[k] = "{" THEN
        LET n == SkipWs(s, k + 1) IN
        IF n <= Len(s) /\ s[n] = "}"
        THEN [ok |-> TRUE, val |-> [t |-> "obj", v |-> <<>>], pos |-> n + 1]
        ELSE MembersTail(s, n, <<>>)
    ELSE ParseFail

\* an element, then either a comma and more elements or the closing bracket
ArrayTail(s, k, acc) ==
    LET r == ParseValue(s, k) IN
    IF ~r.ok THEN ParseFail
    ELSE LET n == SkipWs(s, r.pos) IN
         IF n > Len(s) THEN ParseFail
         ELSE IF s[n] = "," THEN ArrayTail(s, n + 1, Append(acc, r.val))
         ELSE IF s[n] = "]"
              THEN [ok |-> TRUE, val |-> [t |-> "arr", v |-> Append(acc, r.val)],
                    pos |-> n + 1]
         ELSE ParseFail

\* "key" : value, then either a comma and more members or the closing brace
MembersTail(s, k0, acc) ==
    LET k == SkipWs(s, k0) IN
    IF k > Len(s) \/ s[k] # DQ THEN ParseFail
    ELSE LET e == StringEnd(s, k + 1) IN
         IF e = 0 THEN ParseFail
         ELSE LET key == SubSeq(s, k + 1, e - 1)
                  c   == SkipWs(s, e + 1)
              IN  IF c > Len(s) \/ s[c] # ":" THEN ParseFail
                  ELSE LET r == ParseValue(s, c + 1) IN
                       IF ~r.ok THEN ParseFail
                       ELSE LET n   == SkipWs(s, r.pos)
                                obj == (key :> r.val) @@ acc
                            IN  IF n > Len(s) THEN ParseFail
                                ELSE IF s[n] = ","
                                     THEN MembersTail(s, n + 1, obj)
                                ELSE IF s[n] = "}"
                                     THEN [ok |-> TRUE,
                                           val |-> [t |-> "obj", v |-> obj],
                                           pos |-> n + 1]
                                ELSE ParseFail

JSONparse(s) ==
    LET r == ParseValue(s, 1) IN
    IF r.ok /\ SkipWs(s, r.pos) > Len(s)
    THEN [ok |-> TRUE, val |-> r.val]
    ELSE [ok |-> FALSE, val |-> NoValue]

(***************************************************************************)
(* repairAndParseJsonArray                                                 *)
(***************************************************************************)
RepairThrows(msg) == [ok |-> FALSE, val |-> NoValue, error |-> msg]

repairedString(content) ==
    LET lastBraceIndex == lastIndexOf(content, "}")
        truncatedContent == substring(content, 0, lastBraceIndex + 1)
        lastCommaIndex == lastIndexOf(truncatedContent, ",")
        lastOpenBraceIndex == lastIndexOf(truncatedContent, "{")
        contentBeforeLastObject == substring(truncatedContent, 0, lastOpenBraceIndex)
        lastCommaBefore == lastIndexOf(contentBeforeLastObject, ",")
    IN  IF lastCommaIndex > lastOpenBraceIndex
        THEN [ok |-> TRUE, s |-> truncatedContent \o <<"]">>]
        ELSE IF lastCommaBefore # -1
             THEN [ok |-> TRUE,
                   s |-> substring(contentBeforeLastObject, 0, lastCommaBefore)
                           \o <<"}", "]">>]
             ELSE [ok |-> FALSE, s |-> <<>>]

repairAndParseJsonArray(text) ==
    LET content == trim(text) IN
    IF ~startsWith(content, "[")
    THEN RepairThrows("JSON does not start with an array bracket.")
    ELSE IF lastIndexOf(content, "}") = -1
    THEN RepairThrows("No closing brace found in JSON text to repair from.")
    ELSE LET rs == repairedString(content) IN
         IF ~rs.ok
         THEN RepairThrows("Cannot repair: the only object in the array is truncated.")
         ELSE LET p == JSONparse(replaceCommaBracketAtEnd(rs.s)) IN
              IF p.ok THEN [ok |-> TRUE, val |-> p.val, error |-> ""]
              ELSE RepairThrows("Could not repair the malformed JSON response.")

(***************************************************************************)
(* Numbers and their text                                                  *)
(***************************************************************************)
Digit == <<"0", "1", "2", "3", "4", "5", "6", "7", "8", "9">>
Digits == { Digit[k] : k \in 1..10 }
DigitVal(c) == CHOOSE d \in 0..9 : Digit[d + 1] = c

\* String.prototype.split(sep) for a one-character separator
RECURSIVE SplitFrom(_, _, _, _)
SplitFrom(s, sep, k, cur) ==
    IF k > Len(s) THEN <<cur>>
    ELSE IF s[k] = sep THEN <<cur>> \o SplitFrom(s, sep, k + 1, <<>>)
    ELSE SplitFrom(s, sep, k + 1, Append(cur, s[k]))

split(s, sep) == SplitFrom(s, sep, 1, <<>>)

RECURSIVE DigitsValue(_, _)
DigitsValue(s, acc) ==
    IF s = <<>> THEN acc ELSE DigitsValue(Tail(s), acc * 10 + DigitVal(Head(s)))

AllDigits(s) == s # <<>> /\ \A k \in 1..Len(s) : s[k] \in Digits

NaN == [nan |-> TRUE, n |-> 0]
Num(n) == [nan |-> FALSE, n |-> n]

\* Number(s) for text made of digits, signs, blanks and letters: blank text
\* is 0, an optionally signed run of digits is its value, the rest is NaN
Number(s) ==
    LET t == trim(s) IN
    IF t = <<>> THEN Num(0)
    ELSE IF AllDigits(t) THEN Num(DigitsValue(t, 0))
    ELSE IF Head(t) = "-" /\ AllDigits(Tail(t)) THEN Num(0 - DigitsValue(Tail(t), 0))
    ELSE IF Head(t) = "+" /\ AllDigits(Tail(t)) THEN Num(DigitsValue(Tail(t), 0))
    ELSE NaN

RECURSIVE NatString(_)
NatString(n) ==
    IF n < 10 THEN <<Digit[n + 1]>>
    ELSE Append(NatString(n \div 10), Digit[(n % 10) + 1])

\* String(n) for an integer
String(n) == IF n < 0 THEN <<"-">> \o NatString(0 - n) ELSE NatString(n)

\* s.padStart(2, '0')
padStart2(s) ==
    IF Len(s) >= 2 THEN s
    ELSE IF Len(s) = 1 THEN <<"0">> \o s
    ELSE <<"0", "0">>

\* a % b of JavaScript for b > 0: the sign follows the dividend
JsRem(a, b) == IF a >= 0 THEN a % b ELSE 0 - ((0 - a) % b)

(***************************************************************************)
(* What the model writes: an array of transcript objects in schema order   *)
(* (transcriptSchema), possibly cut short by the token limit               *)
(***************************************************************************)
speakerKey == <<"s", "p", "e", "a", "k", "e", "r">>
timestampKey == <<"t", "i", "m", "e", "s", "t", "a", "m", "p">>
textKey == <<"t", "e", "x", "t">>

Quoted(s) == <<DQ>> \o s \o <<DQ>>

ObjectText(l) ==
    <<"{">> \o Quoted(speakerKey) \o <<":">> \o Quoted(l.speaker) \o <<",">>
            \o Quoted(timestampKey) \o <<":">> \o Quoted(l.timestamp) \o <<",">>
            \o Quoted(textKey) \o <<":">> \o Quoted(l.text) \o <<"}">>

RECURSIVE JoinObjects(_)
JoinObjects(ls) ==
    IF ls = <<>> THEN <<>>
    ELSE IF Len(ls) = 1 THEN ObjectText(ls[1])
    ELSE ObjectText(ls[1]) \o <<",">> \o JoinObjects(Tail(ls))

ArrayText(ls) == <<"[">> \o JoinObjects(ls) \o <<"]">>

\* the value JSON.parse gives for one transcript object
Str(s) == [t |-> "str", v |-> s]
LineValue(l) ==
    [t |-> "obj",
     v |-> (speakerKey :> Str(l.speaker)) @@ (timestampKey :> Str(l.timestamp))
             @@ (textKey :> Str(l.text))]

LineValues(ls) == [k \in 1..Len(ls) |-> LineValue(ls[k])]

Line(sp, ts, tx) == [speaker |-> sp, timestamp |-> ts, text |-> tx]

\* text values of the lines the repair is tried on
SampleTexts ==
    { <<"h", "i">>, <<"a", "{", "b">>, <<"x", "}", "y">>, <<"c", "{", "d", "}">>,
      <<"p", ",", "q">> }

SampleLines == { Line(<<"A">>, <<"0", "0", ":", "0", "1">>, tx) : tx \in SampleTexts }

SeqsUpTo(S, n) == UNION { [1..k -> S] : k \in 0..n }

(***************************************************************************)
(* transcribeAudioChunk                                                    *)
(***************************************************************************)
MsgNoContent ==
    "The model returned no content. This might be due to a safety block or an issue with the audio file."
MsgSafety == "Transcription failed because the content was blocked for safety reasons."
MsgMaxTokens ==
    "Transcription failed because the audio is too long, exceeding the model's token limit."
MsgUnrepairable ==
    "The model returned a malformed JSON response that could not be repaired. This can happen with very long or complex audio files."
MsgGeneric ==
    "Failed to transcribe audio. The model may have been unable to process the request. Please try again with a shorter audio file if the problem persists."
MsgNoClient == "API Client not initialized. Please set the API_KEY."

\* variant: the token-limit case is not told apart
noContentMessage_NoMaxTokens(finishReason) ==
    IF finishReason = "SAFETY" THEN MsgSafety ELSE MsgNoContent

noContentMessage(finishReason) ==
    IF finishReason = "SAFETY" THEN MsgSafety
    ELSE IF finishReason = "MAX_TOKENS" THEN MsgMaxTokens
    ELSE MsgNoContent

\* variant: the catch block returns an empty transcript instead of rethrowing
ChunkThrows_Swallow(msg, tried) ==
    [ok |-> TRUE, val |-> [t |-> "arr", v |-> <<>>], error |-> "", alerted |-> FALSE,
     repairTried |-> tried]

ChunkThrows(msg, tried) ==
    [ok |-> FALSE, val |-> NoValue, error |-> msg, alerted |-> FALSE,
     repairTried |-> tried]

\* variant: a repaired transcript is returned without the alert
ChunkReturns_NoAlert(val, isRepaired) ==
    [ok |-> TRUE, val |-> val, error |-> "", alerted |-> FALSE,
     repairTried |-> isRepaired]

ChunkReturns(val, isRepaired) ==
    [ok |-> TRUE, val |-> val, error |-> "", alerted |-> isRepaired,
     repairTried |-> isRepaired]

\* resp: what ai.models.generateContent settles with
transcribeAudioChunk(resp) ==
    IF resp.rejected
    THEN ChunkThrows(IF resp.isError THEN resp.error ELSE MsgGeneric, FALSE)
    ELSE IF resp.text = <<>>
    THEN ChunkThrows(noContentMessage(resp.finishReason), FALSE)
    ELSE LET text == trim(resp.text)
             p == JSONparse(text)
         IN  IF p.ok THEN ChunkReturns(p.val, FALSE)
             ELSE LET r == repairAndParseJsonArray(text) IN
                  IF r.ok THEN ChunkReturns(r.val, TRUE)
                  ELSE ChunkThrows(MsgUnrepairable, TRUE)

(***************************************************************************)
(* transcribeAudio: the timestamp rewrite of one chunk                     *)
(***************************************************************************)
CHUNK_DURATION_SECONDS == 59

\* line.timestamp.split(':') needs a line that has a string timestamp
hasTimestamp(line) ==
    /\ line.t = "obj"
    /\ timestampKey \in DOMAIN line.v
    /\ line.v[timestampKey].t = "str"

adjustedTimestamp(absoluteSeconds) ==
    LET newMinutes == absoluteSeconds \div 60
        newSeconds == JsRem(absoluteSeconds, 60)
    IN  padStart2(String(newMinutes)) \o <<":">> \o padStart2(String(newSeconds))

\* variant: the start of the chunk is not added
adjustLine_NoOffset(line, chunkStartTimeSeconds) ==
    LET parts == split(line.v[timestampKey].v, ":")
        timeParts == [k \in 1..Len(parts) |-> Number(parts[k])]
    IN  IF Len(timeParts) # 2 \/ timeParts[1].nan \/ timeParts[2].nan
        THEN line
        ELSE LET lineSecondsWithinChunk == timeParts[1].n * 60 + timeParts[2].n
             IN  [line EXCEPT !.v = (timestampKey :> Str(adjustedTimestamp(lineSecondsWithinChunk)))
                                       @@ line.v]

adjustLine(line, chunkStartTimeSeconds) ==
    LET parts == split(line.v[timestampKey].v, ":")
        timeParts == [k \in 1..Len(parts) |-> Number(parts[k])]
    IN  IF Len(timeParts) # 2 \/ timeParts[1].nan \/ timeParts[2].nan
        THEN line
        ELSE LET lineSecondsWithinChunk == timeParts[1].n * 60 + timeParts[2].n
                 \* Math.floor of a sum of integers
                 absoluteSeconds == chunkStartTimeSeconds + lineSecondsWithinChunk
             IN  [line EXCEPT !.v = (timestampKey :> Str(adjustedTimestamp(absoluteSeconds)))
                                       @@ line.v]

\* chunkTranscript.map(...) throws a TypeError
mapThrows(val) ==
    \/ val.t # "arr"
    \/ \E k \in 1..Len(val.v) : ~hasTimestamp(val.v[k])

\* variant: the lines of a chunk are appended last to first
adjustedTranscript_Reversed(val, chunkStartTimeSeconds) ==
    [k \in 1..Len(val.v) |->
        adjustLine(val.v[Len(val.v) + 1 - k], chunkStartTimeSeconds)]

adjustedTranscript(val, chunkStartTimeSeconds) ==
    [k \in 1..Len(val.v) |-> adjustLine(val.v[k], chunkStartTimeSeconds)]

(***************************************************************************)
(* The parse step of transcribeAudioChunk on one response text             *)
(***************************************************************************)
Pending == [ok |-> FALSE, val |-> NoValue, error |-> "pending", via |-> "none"]

RepairInit ==
    /\ srcLines \in SeqsUpTo(SampleLines, MaxObjects)
    /\ cutAt \in 0..Len(ArrayText(srcLines))
    /\ jsonText = SubSeq(ArrayText(srcLines), 1, cutAt)
    /\ repaired = Pending
    /\ pc = "idle" /\ ai = TRUE /\ length = 0 /\ sampleRate = 1
    /\ numberOfChunks = 0 /\ i = 0 /\ combinedTranscript = <<>>
    /\ segments = <<>> /\ progress = <<>> /\ requests = <<>> /\ inFlight = {}
    /\ alerts = <<>> /\ events = <<>> /\ chunkLog = <<>>
    /\ result = [status |-> "pending", error |-> "", value |-> <<>>]
    /\ onProgressMay = "return"
    /\ sumOp = [fn |-> "none", pc |-> "none", language |-> "", requests |-> 0,
                resp |-> [rejected |-> FALSE, isError |-> FALSE, error |-> "",
                          text |-> <<>>, finishReason |-> "none"],
                out |-> [ok |-> FALSE, val |-> NoValue, error |-> "pending"]]
    /\ recIn = NoValue /\ recStart = 0
    /\ recOut = [ok |-> FALSE, val |-> NoValue, error |-> "pending"]
    /\ currentUser = [email |-> "", isGuest |-> FALSE, meetings |-> <<>>]
    /\ storedUsers = <<>>
    /\ currentPage = "landing"
    /\ selectedMeeting = [id |-> -1]
    /\ upload = [pc |-> "none"]
    /\ translation = [pc |-> "none"]
    /\ nextId = 0
    /\ WavIdle /\ ChunkIdle /\ SliceIdle /\ AuthIdle

\* JSON.parse(jsonText) succeeded
ParseDirect ==
    /\ repaired = Pending
    /\ JSONparse(trim(jsonText)).ok
    /\ repaired' = [ok |-> TRUE, val |-> JSONparse(trim(jsonText)).val,
                    error |-> "", via |-> "parse"]
    /\ UNCHANGED <<jsonText, srcLines, cutAt>>
    /\ UNCHANGED <<orchVars, sumOp, recVars, appVars, unitVars>>

\* JSON.parse(jsonText) threw: the catch block calls repairAndParseJsonArray
ParseRepair ==
    /\ repaired = Pending
    /\ ~JSONparse(trim(jsonText)).ok
    /\ LET r == repairAndParseJsonArray(trim(jsonText)) IN
       repaired' = [ok |-> r.ok, val |-> r.val, error |-> r.error, via |-> "repair"]
    /\ UNCHANGED <<jsonText, srcLines, cutAt>>
    /\ UNCHANGED <<orchVars, sumOp, recVars, appVars, unitVars>>

RepairNext == ParseDirect \/ ParseRepair

SpecRepair == RepairInit /\ [][RepairNext]_vars

(***************************************************************************)
(* Where the objects of the array lie in its text (1-based positions)      *)
(***************************************************************************)
RECURSIVE ObjectEnd(_, _)
\* position of the closing brace of object j
ObjectEnd(ls, j) ==
    IF j = 0 THEN 1
    ELSE ObjectEnd(ls, j - 1) + (IF j > 1 THEN 1 ELSE 0) + Len(ObjectText(ls[j]))

\* position of the opening brace of object j
ObjectStart(ls, j) == ObjectEnd(ls, j) - Len(ObjectText(ls[j])) + 1

\* the text stops right after the comma that follows object j
CutAfterComma(j) ==
    /\ j \in 1..(Len(srcLines) - 1)
    /\ cutAt = ObjectEnd(srcLines, j) + 1

\* the text stops inside object j: its opening brace arrived, its closing one did not
CutInsideObject(j) ==
    /\ j \in 1..Len(srcLines)
    /\ cutAt >= ObjectStart(srcLines, j)
    /\ cutAt < ObjectEnd(srcLines, j)

Repaired == repaired.via = "repair"

\* C6: a response cut right after a complete object and a dangling comma is
\* repaired to exactly the objects up to and including that object, in order.
C6_DanglingCommaKeepsAllComplete ==
    \A j \in 1..MaxObjects + 1 :
        (Repaired /\ CutAfterComma(j)) =>
            /\ repaired.ok
            /\ repaired.val = [t |-> "arr", v |-> LineValues(SubSeq(srcLines, 1, j))]

\* C7: a response cut inside an object is repaired to the complete objects
\* before it when there is one, and is unrepairable when it is the only one.
C7_MidObjectDropsIncomplete ==
    \A j \in 1..MaxObjects + 1 :
        (Repaired /\ CutInsideObject(j)) =>
            IF j > 1
            THEN /\ repaired.ok
                 /\ repaired.val = [t |-> "arr", v |-> LineValues(SubSeq(srcLines, 1, j - 1))]
            ELSE ~repaired.ok

(***************************************************************************)
(* What generateContent may settle with for one chunk                      *)
(***************************************************************************)
T0010 == <<"0", "0", ":", "1", "0">>
T0105 == <<"0", "1", ":", "0", "5">>
T0001 == <<"0", "0", ":", "0", "1">>
Hi == <<"h", "i">>

OneLine == <<Line(<<"A">>, T0010, Hi)>>
TwoLines == <<Line(<<"A">>, T0105, Hi), Line(<<"B">>, T0001, <<"a", "{", "b">>)>>
BraceFirst == <<Line(<<"B">>, T0001, <<"a", "{", "b">>), Line(<<"A">>, T0010, Hi)>>

Answer(text, reason) ==
    [rejected |-> FALSE, isError |-> FALSE, error |-> "", text |-> text,
     finishReason |-> reason]

Rejection(isError) ==
    [rejected |-> TRUE, isError |-> isError, error |-> "fetch failed", text |-> <<>>,
     finishReason |-> "none"]

FinishReasons == {"STOP", "SAFETY", "MAX_TOKENS", "RECITATION", "none"}

ModelResponses ==
    { Answer(ArrayText(<<>>), "STOP"),
      Answer(ArrayText(OneLine), "STOP"),
      Answer(ArrayText(TwoLines), "STOP"),
      \* cut right after the comma that follows the first object
      Answer(SubSeq(ArrayText(TwoLines), 1, ObjectEnd(TwoLines, 1) + 1), "MAX_TOKENS"),
      \* the same, the first object having a brace in its text
      Answer(SubSeq(ArrayText(BraceFirst), 1, ObjectEnd(BraceFirst, 1) + 1), "MAX_TOKENS"),
      \* cut inside the second object
      Answer(SubSeq(ArrayText(TwoLines), 1, ObjectEnd(TwoLines, 2) - 3), "MAX_TOKENS"),
      \* cut inside the only object
      Answer(SubSeq(ArrayText(OneLine), 1, ObjectEnd(OneLine, 1) - 3), "MAX_TOKENS") }
    \cup { Answer(<<>>, r) : r \in FinishReasons }
    \cup { Rejection(TRUE), Rejection(FALSE) }

(***************************************************************************)
(* transcribeAudio                                                         *)
(***************************************************************************)
CeilDiv(a, b) == (a + b - 1) \div b

Rejected(msg) == [status |-> "rejected", error |-> msg, value |-> <<>>]
Resolved(value) == [status |-> "resolved", error |-> "", value |-> value]

MsgDecoding == [text |-> "Decoding audio file...", k |-> 0, n |-> 0]
MsgCombining == [text |-> "Combining transcripts...", k |-> 0, n |-> 0]
\* variant: the loop index is shown as it is
MsgChunk_ZeroBased(k, n) == [text |-> "Transcribing chunk k of n...", k |-> k - 1, n |-> n]

MsgChunk(k, n) == [text |-> "Transcribing chunk k of n...", k |-> k, n |-> n]

\* kind, chunk number (1-based) and the transcript length at that moment
Event(kind, k, lines) == [kind |-> kind, k |-> k, lines |-> lines]

\* totalDuration = length / sampleRate seconds; times below are counted in
\* sample periods (1 / sampleRate seconds) so that they stay integers
chunkStartTimeSeconds(k) == k * CHUNK_DURATION_SECONDS
chunkStartTime(k) == chunkStartTimeSeconds(k) * sampleRate
\* variant: the last window is cut one sample period short of the total
endTime_Short(k) ==
    Min(chunkStartTime(k) + CHUNK_DURATION_SECONDS * sampleRate, length - 1)

endTime(k) == Min(chunkStartTime(k) + CHUNK_DURATION_SECONDS * sampleRate, length)
chunkDuration(k) == endTime(k) - chunkStartTime(k)

\* variant: Math.floor instead of Math.ceil
chunkCount_Floor(len, rate) == len \div (CHUNK_DURATION_SECONDS * rate)

chunkCount(len, rate) == CeilDiv(len, CHUNK_DURATION_SECONDS * rate)

\* the error a throwing onProgress argument raises
MsgCallback == "onProgress threw"

\* onProgress(...) is an ordinary call inside transcribeAudio: whether it throws
onProgressThrows == IF onProgressMay = "throw" THEN BOOLEAN ELSE {FALSE}

\* transcribeAudio has been called and has not run yet
TranscribeCalled ==
    /\ pc = "idle"
    /\ length = 0 /\ sampleRate = 1 /\ numberOfChunks = 0 /\ i = 0
    /\ combinedTranscript = <<>>
    /\ segments = <<>> /\ progress = <<>> /\ requests = <<>> /\ inFlight = {}
    /\ alerts = <<>> /\ events = <<>> /\ chunkLog = <<>>
    /\ result = [status |-> "pending", error |-> "", value |-> <<>>]

\* transcribeAudio is called without a client
StartNoClient ==
    /\ pc = "idle" /\ ~ai
    /\ pc' = "failed"
    /\ result' = Rejected(MsgNoClient)
    /\ UNCHANGED <<ai, length, sampleRate, numberOfChunks, i, combinedTranscript,
                   segments, progress, requests, inFlight, alerts, events, chunkLog>>
    /\ UNCHANGED besideTranscribe

\* transcribeAudio up to the first await
Start ==
    /\ pc = "idle" /\ ai
    /\ progress' = Append(progress, MsgDecoding)
    /\ events' = Append(events, Event("progress", 0, 0))
    /\ \E threw \in onProgressThrows :
        IF threw
        THEN pc' = "failed" /\ result' = Rejected(MsgCallback)
        ELSE pc' = "decoding" /\ UNCHANGED result
    /\ UNCHANGED <<ai, length, sampleRate, numberOfChunks, i, combinedTranscript,
                   segments, requests, inFlight, alerts, chunkLog>>
    /\ UNCHANGED besideTranscribe

\* decodeAudioData rejects
DecodeFails ==
    /\ pc = "decoding"
    /\ pc' = "failed"
    /\ result' = Rejected("Unable to decode audio data")
    /\ UNCHANGED <<ai, length, sampleRate, numberOfChunks, i, combinedTranscript,
                   segments, progress, requests, inFlight, alerts, events, chunkLog>>
    /\ UNCHANGED besideTranscribe

\* decodeAudioData resolves with a buffer of len frames at the given rate
Decoded ==
    /\ pc = "decoding"
    /\ \E rate \in 1..MaxSampleRate, len \in 0..MaxLength :
        /\ length' = len
        /\ sampleRate' = rate
        /\ numberOfChunks' = chunkCount(len, rate)
    /\ combinedTranscript' = <<>>
    /\ i' = 0
    /\ pc' = "loop"
    /\ UNCHANGED <<ai, segments, progress, requests, inFlight, alerts, events,
                   chunkLog, result>>
    /\ UNCHANGED besideTranscribe

\* one pass of the loop head: progress message, window, slice and encode
BeginChunk ==
    /\ pc = "loop" /\ i < numberOfChunks
    /\ progress' = Append(progress, MsgChunk(i + 1, numberOfChunks))
    /\ events' = Append(events, Event("progress", i + 1, Len(combinedTranscript)))
    /\ \E threw \in onProgressThrows :
        IF threw
        THEN /\ pc' = "failed"
             /\ result' = Rejected(MsgCallback)
             /\ UNCHANGED <<i, segments>>
        ELSE IF chunkDuration(i) <= 0
        THEN /\ i' = i + 1
             /\ UNCHANGED <<pc, segments, result>>
        ELSE /\ segments' = Append(segments,
                                   [index |-> i, start |-> chunkStartTime(i),
                                    end |-> endTime(i), duration |-> chunkDuration(i)])
             /\ pc' = "encoding"
             /\ UNCHANGED <<i, result>>
    /\ UNCHANGED <<ai, length, sampleRate, numberOfChunks, combinedTranscript,
                   requests, inFlight, alerts, chunkLog>>
    /\ UNCHANGED besideTranscribe

\* variant: the call is not awaited and the loop goes on
SubmitRequest_NoAwait ==
    /\ pc = "encoding"
    /\ requests' = Append(requests, i)
    /\ inFlight' = inFlight \cup {i}
    /\ events' = Append(events, Event("request", i + 1, Len(combinedTranscript)))
    /\ pc' = "loop"
    /\ i' = i + 1
    /\ UNCHANGED <<ai, length, sampleRate, numberOfChunks, combinedTranscript,
                   segments, progress, alerts, chunkLog, result>>
    /\ UNCHANGED besideTranscribe

\* transcribeAudioChunk: the chunk is read and generateContent is called
SubmitRequest ==
    /\ pc = "encoding"
    /\ requests' = Append(requests, i)
    /\ inFlight' = inFlight \cup {i}
    /\ events' = Append(events, Event("request", i + 1, Len(combinedTranscript)))
    /\ pc' = "awaiting"
    /\ UNCHANGED <<ai, length, sampleRate, numberOfChunks, i, combinedTranscript,
                   segments, progress, alerts, chunkLog, result>>
    /\ UNCHANGED besideTranscribe

\* variant: a chunk that fails leaves the run waiting instead of rejecting it
ReceiveResponse_Hang ==
    /\ pc = "awaiting" /\ i \in inFlight
    /\ \E resp \in ModelResponses :
        LET out == transcribeAudioChunk(resp)
            entry == [chunk |-> i, start |-> chunkStartTimeSeconds(i), resp |-> resp,
                      out |-> out, offset |-> Len(combinedTranscript)]
        IN  /\ chunkLog' = Append(chunkLog, entry)
            /\ alerts' = IF out.alerted THEN Append(alerts, i) ELSE alerts
            /\ IF ~out.ok \/ mapThrows(out.val)
               THEN UNCHANGED <<pc, result, i, combinedTranscript>>
               ELSE /\ combinedTranscript' =
                           combinedTranscript
                               \o adjustedTranscript(out.val, chunkStartTimeSeconds(i))
                    /\ i' = i + 1
                    /\ pc' = "loop"
                    /\ UNCHANGED result
    /\ inFlight' = inFlight \ {i}
    /\ events' = Append(events, Event("response", i + 1, Len(combinedTranscript')))
    /\ UNCHANGED <<ai, length, sampleRate, numberOfChunks, segments, progress, requests>>
    /\ UNCHANGED besideTranscribe

\* generateContent settles: the rest of transcribeAudioChunk and of the loop body
ReceiveResponse ==
    /\ pc = "awaiting" /\ i \in inFlight
    /\ \E resp \in ModelResponses :
        LET out == transcribeAudioChunk(resp)
            entry == [chunk |-> i, start |-> chunkStartTimeSeconds(i), resp |-> resp,
                      out |-> out, offset |-> Len(combinedTranscript)]
        IN  /\ chunkLog' = Append(chunkLog, entry)
            /\ alerts' = IF out.alerted THEN Append(alerts, i) ELSE alerts
            /\ IF ~out.ok
               THEN /\ pc' = "failed"
                    /\ result' = Rejected(out.error)
                    /\ UNCHANGED <<i, combinedTranscript>>
               ELSE IF mapThrows(out.val)
               THEN /\ pc' = "failed"
                    /\ result' = Rejected("TypeError")
                    /\ UNCHANGED <<i, combinedTranscript>>
               ELSE /\ combinedTranscript' =
                           combinedTranscript
                               \o adjustedTranscript(out.val, chunkStartTimeSeconds(i))
                    /\ i' = i + 1
                    /\ pc' = "loop"
                    /\ UNCHANGED result
    /\ inFlight' = inFlight \ {i}
    /\ events' = Append(events, Event("response", i + 1, Len(combinedTranscript')))
    /\ UNCHANGED <<ai, length, sampleRate, numberOfChunks, segments, progress, requests>>
    /\ UNCHANGED besideTranscribe

\* variant: an empty transcript is an error of transcribeAudio
Finish_RejectEmpty ==
    /\ pc = "loop" /\ i >= numberOfChunks
    /\ progress' = Append(progress, MsgCombining)
    /\ events' = Append(events, Event("progress", numberOfChunks + 1, Len(combinedTranscript)))
    /\ IF combinedTranscript = <<>>
       THEN pc' = "failed" /\ result' = Rejected(MsgGeneric)
       ELSE pc' = "done" /\ result' = Resolved(combinedTranscript)
    /\ UNCHANGED <<ai, length, sampleRate, numberOfChunks, i, combinedTranscript,
                   segments, requests, inFlight, alerts, chunkLog>>
    /\ UNCHANGED besideTranscribe

\* the loop is over: last progress message and return
Finish ==
    /\ pc = "loop" /\ i >= numberOfChunks
    /\ progress' = Append(progress, MsgCombining)
    /\ events' = Append(events, Event("progress", numberOfChunks + 1, Len(combinedTranscript)))
    /\ \E threw \in onProgressThrows :
        IF threw
        THEN pc' = "failed" /\ result' = Rejected(MsgCallback)
        ELSE pc' = "done" /\ result' = Resolved(combinedTranscript)
    /\ UNCHANGED <<ai, length, sampleRate, numberOfChunks, i, combinedTranscript,
                   segments, requests, inFlight, alerts, chunkLog>>
    /\ UNCHANGED besideTranscribe

TranscribeNext ==
    \/ StartNoClient
    \/ Start
    \/ DecodeFails
    \/ Decoded
    \/ BeginChunk
    \/ SubmitRequest
    \/ ReceiveResponse
    \/ Finish

(***************************************************************************)
(* generateMeetingSummary and translateSummary                             *)
(***************************************************************************)
executiveSummaryKey == <<"e", "x", "e", "c", "u", "t", "i", "v", "e", "S", "u", "m", "m", "a", "r", "y">>
actionItemsKey == <<"a", "c", "t", "i", "o", "n", "I", "t", "e", "m", "s">>
keyDecisionsKey == <<"k", "e", "y", "D", "e", "c", "i", "s", "i", "o", "n", "s">>
itemKey == <<"i", "t", "e", "m">>
assigneeKey == <<"a", "s", "s", "i", "g", "n", "e", "e">>
decisionKey == <<"d", "e", "c", "i", "s", "i", "o", "n">>
rationaleKey == <<"r", "a", "t", "i", "o", "n", "a", "l", "e">>

\* parsedJson.key: undefined when the value is no object or has no such key
prop(val, key) ==
    IF val.t = "obj" /\ key \in DOMAIN val.v THEN val.v[key] ELSE NoValue

\* what an `if` makes of a value: undefined and "" are falsy, [] and {} are not
truthy(val) ==
    IF val.t = "none" THEN FALSE
    ELSE IF val.t = "str" THEN val.v # <<>>
    ELSE TRUE

Member(key, valueText) == Quoted(key) \o <<":">> \o valueText

RECURSIVE JoinTexts(_)
JoinTexts(ts) ==
    IF ts = <<>> THEN <<>>
    ELSE IF Len(ts) = 1 THEN ts[1]
    ELSE ts[1] \o <<",">> \o JoinTexts(Tail(ts))

\* what the model may write for each field of summarySchema
ExecutiveSummaryTexts == {"absent", "empty", "text"}
ActionItemsTexts == {"absent", "empty", "one"}
KeyDecisionsTexts == {"absent", "empty", "bare", "rationale"}

executiveSummaryMember(e) ==
    IF e = "absent" THEN <<>>
    ELSE << Member(executiveSummaryKey, Quoted(IF e = "empty" THEN <<>> ELSE <<"s">>)) >>

actionItemsMember(a) ==
    IF a = "absent" THEN <<>>
    ELSE << Member(actionItemsKey,
                   IF a = "empty" THEN <<"[", "]">>
                   ELSE <<"[", "{">> \o Member(itemKey, Quoted(<<"i">>)) \o <<",">>
                            \o Member(assigneeKey, Quoted(<<"a">>)) \o <<"}", "]">>) >>

keyDecisionsMember(k) ==
    IF k = "absent" THEN <<>>
    ELSE << Member(keyDecisionsKey,
                   IF k = "empty" THEN <<"[", "]">>
                   ELSE IF k = "bare"
                   THEN <<"[", "{">> \o Member(decisionKey, Quoted(<<"d">>)) \o <<"}", "]">>
                   ELSE <<"[", "{">> \o Member(decisionKey, Quoted(<<"d">>)) \o <<",">>
                            \o Member(rationaleKey, Quoted(<<"r">>)) \o <<"}", "]">>) >>

SummaryText(e, a, k) ==
    <<"{">> \o JoinTexts(executiveSummaryMember(e) \o actionItemsMember(a)
                            \o keyDecisionsMember(k)) \o <<"}">>

\* what generateContent may settle with for a summary or a translation: an
\* object, an empty text, a text cut short, a rejection
SummaryResponses ==
    { Answer(SummaryText(e, a, k), "STOP") :
          e \in ExecutiveSummaryTexts, a \in ActionItemsTexts, k \in KeyDecisionsTexts }
        \cup { Answer(<<>>, "STOP"),
               Answer(SubSeq(SummaryText("text", "one", "bare"), 1, 30), "MAX_TOKENS"),
               Rejection(TRUE) }

MsgSummaryNoContent == "The model returned no content while generating the summary."
MsgSummaryInvalid == "Invalid JSON structure received from summary API."
MsgSummaryFailed ==
    "Failed to generate meeting summary. Please check the console for details."
MsgSyntaxError == "SyntaxError"
MsgTranslateNoContent(targetLanguage) ==
    "The model returned no content while translating to " \o targetLanguage \o "."
MsgTranslateFailed(targetLanguage) ==
    "Failed to translate summary to " \o targetLanguage \o "."

Threw(msg) == [ok |-> FALSE, val |-> NoValue, error |-> msg]
Returns(val) == [ok |-> TRUE, val |-> val, error |-> ""]

\* the try block of generateMeetingSummary
summaryTry(resp) ==
    IF resp.rejected THEN Threw(resp.error)
    ELSE IF resp.text = <<>> THEN Threw(MsgSummaryNoContent)
    ELSE LET parsedJson == JSONparse(trim(resp.text)) IN
         IF ~parsedJson.ok THEN Threw(MsgSyntaxError)
         ELSE IF /\ truthy(prop(parsedJson.val, executiveSummaryKey))
                 /\ truthy(prop(parsedJson.val, actionItemsKey))
                 /\ truthy(prop(parsedJson.val, keyDecisionsKey))
         THEN Returns(parsedJson.val)
         ELSE Threw(MsgSummaryInvalid)

\* try and catch: whatever was thrown inside is replaced by one message
generateMeetingSummary(resp) ==
    LET r == summaryTry(resp) IN
    IF r.ok THEN r ELSE Threw(MsgSummaryFailed)

\* the try block of translateSummary
translateTry(resp, targetLanguage) ==
    IF resp.rejected THEN Threw(resp.error)
    ELSE IF resp.text = <<>> THEN Threw(MsgTranslateNoContent(targetLanguage))
    ELSE LET parsedJson == JSONparse(trim(resp.text)) IN
         IF ~parsedJson.ok THEN Threw(MsgSyntaxError)
         ELSE Returns(parsedJson.val)

translateSummary(resp, targetLanguage) ==
    LET r == translateTry(resp, targetLanguage) IN
    IF r.ok THEN r ELSE Threw(MsgTranslateFailed(targetLanguage))

Languages == {"Spanish", "French"}

SumPending == [ok |-> FALSE, val |-> NoValue, error |-> "pending"]
NoResponse == [rejected |-> FALSE, isError |-> FALSE, error |-> "", text |-> <<>>,
               finishReason |-> "none"]
NoCall == [fn |-> "none", pc |-> "none", language |-> "", requests |-> 0,
           resp |-> NoResponse, out |-> SumPending]
SummaryCall(fn, language) ==
    [fn |-> fn, pc |-> "called", language |-> language, requests |-> 0,
     resp |-> NoResponse, out |-> SumPending]

\* the two functions are called without a client: the guard is before the try
SummaryNoClient ==
    /\ sumOp.pc = "called" /\ ~ai
    /\ sumOp' = [sumOp EXCEPT !.pc = "threw", !.out = Threw(MsgNoClient)]
    /\ UNCHANGED <<pc, ai, length, sampleRate, numberOfChunks, i, combinedTranscript,
                   segments, progress, requests, inFlight, alerts, events, chunkLog,
                   result, onProgressMay, repairVars, recVars, appVars, unitVars>>

\* the one generateContent call of the function
SummaryRequest ==
    /\ sumOp.pc = "called" /\ ai
    /\ sumOp' = [sumOp EXCEPT !.pc = "awaiting", !.requests = @ + 1]
    /\ UNCHANGED <<pc, ai, length, sampleRate, numberOfChunks, i, combinedTranscript,
                   segments, progress, requests, inFlight, alerts, events, chunkLog,
                   result, onProgressMay, repairVars, recVars, appVars, unitVars>>

\* variant: a failed attempt is tried once more
SummarySettles_Retry ==
    /\ sumOp.pc = "awaiting"
    /\ \E resp \in SummaryResponses :
        LET out == IF sumOp.fn = "generateMeetingSummary"
                   THEN generateMeetingSummary(resp)
                   ELSE translateSummary(resp, sumOp.language)
        IN  sumOp' = [sumOp EXCEPT !.resp = resp, !.out = out,
                                   !.pc = IF out.ok THEN "returned"
                                          ELSE IF sumOp.requests < 2 THEN "called"
                                          ELSE "threw"]
    /\ UNCHANGED <<pc, ai, length, sampleRate, numberOfChunks, i, combinedTranscript,
                   segments, progress, requests, inFlight, alerts, events, chunkLog,
                   result, onProgressMay, repairVars, recVars, appVars, unitVars>>

\* generateContent settles: the rest of the function
SummarySettles ==
    /\ sumOp.pc = "awaiting"
    /\ \E resp \in SummaryResponses :
        LET out == IF sumOp.fn = "generateMeetingSummary"
                   THEN generateMeetingSummary(resp)
                   ELSE translateSummary(resp, sumOp.language)
        IN  sumOp' = [sumOp EXCEPT !.resp = resp, !.out = out,
                                   !.pc = IF out.ok THEN "returned" ELSE "threw"]
    /\ UNCHANGED <<pc, ai, length, sampleRate, numberOfChunks, i, combinedTranscript,
                   segments, progress, requests, inFlight, alerts, events, chunkLog,
                   result, onProgressMay, repairVars, recVars, appVars, unitVars>>

SummaryNext == SummaryNoClient \/ SummaryRequest \/ SummarySettles

\* nothing of the timestamp rewrite on its own is under way
RewriteIdle == recIn = NoValue /\ recStart = 0 /\ recOut = SumPending

\* no user is signed in and no handler of the application is running
\* selectedMeeting is null
NoMeeting == [id |-> -1]
NoOperation == [pc |-> "none"]
AppIdle ==
    /\ currentUser = [email |-> "", isGuest |-> FALSE, meetings |-> <<>>]
    /\ storedUsers = <<>>
    /\ currentPage = "landing"
    /\ selectedMeeting = NoMeeting
    /\ upload = NoOperation
    /\ translation = NoOperation
    /\ nextId = 0

\* the calls of the service a client may make
ServiceCalls ==
    { [fn |-> "transcribeAudio", language |-> ""],
      [fn |-> "generateMeetingSummary", language |-> ""] }
        \cup { [fn |-> "translateSummary", language |-> l] : l \in Languages }

\* one call of the service; the onProgress argument is the application's
\* setProcessingProgressText, a state setter, which returns
Init ==
    /\ ai \in BOOLEAN
    /\ onProgressMay = "return"
    /\ \E call \in ServiceCalls :
        IF call.fn = "transcribeAudio"
        THEN TranscribeCalled /\ sumOp = NoCall
        ELSE /\ sumOp = SummaryCall(call.fn, call.language)
             /\ pc = "unused"
             /\ length = 0 /\ sampleRate = 1 /\ numberOfChunks = 0 /\ i = 0
             /\ combinedTranscript = <<>>
             /\ segments = <<>> /\ progress = <<>> /\ requests = <<>> /\ inFlight = {}
             /\ alerts = <<>> /\ events = <<>> /\ chunkLog = <<>>
             /\ result = [status |-> "pending", error |-> "", value |-> <<>>]
    /\ jsonText = <<>> /\ srcLines = <<>> /\ cutAt = 0 /\ repaired = Pending
    /\ RewriteIdle
    /\ AppIdle
    /\ WavIdle /\ ChunkIdle /\ SliceIdle /\ AuthIdle

Next == TranscribeNext \/ SummaryNext

Spec == Init /\ [][Next]_vars

\* transcribeAudio with an onProgress argument that may throw
CallbackInit ==
    /\ ai \in BOOLEAN
    /\ onProgressMay = "throw"
    /\ TranscribeCalled
    /\ sumOp = NoCall
    /\ jsonText = <<>> /\ srcLines = <<>> /\ cutAt = 0 /\ repaired = Pending
    /\ RewriteIdle
    /\ AppIdle
    /\ WavIdle /\ ChunkIdle /\ SliceIdle /\ AuthIdle

SpecCallback == CallbackInit /\ [][TranscribeNext]_vars

\* transcribeAudio with the application's callback
TranscribeInit ==
    /\ ai \in BOOLEAN
    /\ onProgressMay = "return"
    /\ TranscribeCalled
    /\ sumOp = NoCall
    /\ jsonText = <<>> /\ srcLines = <<>> /\ cutAt = 0 /\ repaired = Pending
    /\ RewriteIdle
    /\ AppIdle
    /\ WavIdle /\ ChunkIdle /\ SliceIdle /\ AuthIdle

\* the steps of the function are taken when they can be, and decodeAudioData
\* and every generateContent call settle
SpecLive == TranscribeInit /\ [][TranscribeNext]_vars /\ WF_vars(TranscribeNext)

(***************************************************************************)
(* The timestamp rewrite on its own: chunkTranscript.map(...) on one chunk *)
(***************************************************************************)
MaxLines == 2
MaxChunkIndex == 2

\* timestamps the model may write: MM:SS, values above 59 and below 0, and
\* text that is no MM:SS
SampleTimestamps ==
    { <<"0", "0", ":", "1", "0">>, <<"0", "1", ":", "0", "5">>, <<"0", "0", ":", "7", "5">>, <<"7", "5", ":", "8", "0">>,
      <<"0", "0", ":", "-", "5">>, <<"-", "1", ":", "0", "0">>,
      <<"a", "b", "c">>, <<"1", "0">>, <<"1", ":", "2", ":", "3">>, <<"a", "b", ":", "c", "d">>, <<"1", "0", ":">>, <<":">>, <<>> }

\* a line as JSON.parse gives it, with a timestamp or without the key
SampleParsedLines ==
    { LineValue(Line(<<"A">>, ts, <<"h", "i">>)) : ts \in SampleTimestamps }
        \cup { [t |-> "obj", v |-> (speakerKey :> Str(<<"A">>)) @@ (textKey :> Str(<<"h", "i">>))] }

ReconcileInit ==
    /\ \E ls \in UNION { [1..n -> SampleParsedLines] : n \in 1..MaxLines } :
        recIn = [t |-> "arr", v |-> ls]
    /\ \E k \in 0..MaxChunkIndex : recStart = chunkStartTimeSeconds(k)
    /\ recOut = SumPending
    /\ TranscribeCalled /\ pc = "idle" /\ ai = TRUE /\ onProgressMay = "return"
    /\ sumOp = NoCall
    /\ jsonText = <<>> /\ srcLines = <<>> /\ cutAt = 0 /\ repaired = Pending
    /\ AppIdle
    /\ WavIdle /\ ChunkIdle /\ SliceIdle /\ AuthIdle

\* the map over the lines of the chunk, as the loop body applies it
Reconcile ==
    /\ recOut = SumPending
    /\ recOut' = IF mapThrows(recIn) THEN Threw("TypeError")
                 ELSE Returns([t |-> "arr", v |-> adjustedTranscript(recIn, recStart)])
    /\ UNCHANGED <<recIn, recStart, orchVars, repairVars, sumOp, appVars, unitVars>>

SpecReconcile == ReconcileInit /\ [][Reconcile]_vars

(***************************************************************************)
(* bufferToWav                                                             *)
(*                                                                         *)
(* The blob is the sequence of its bytes.  A sample is Num(n), the value   *)
(* n / SampleUnit, or NaN.                                                 *)
(***************************************************************************)
MaxChannels == 2
MaxFrames == 3

SampleUnit == 2

\* view.setUint32(offset, data, true): four bytes, the lowest first
setUint32(data) ==
    << data % 256, (data \div 256) % 256, (data \div 65536) % 256,
       (data \div 16777216) % 256 >>

\* view.setUint16(offset, data, true)
setUint16(data) == << data % 256, (data \div 256) % 256 >>

\* view.setInt16(pos, sample, true): the value modulo 2^16, the low byte first
setInt16(sample) == setUint16(((sample % 65536) + 65536) % 65536)

\* variant: the sample is scaled as it comes
clampSample_None(sample) == sample

\* Math.max(-1, Math.min(1, sample)); NaN stays NaN
clampSample(sample) ==
    IF sample.nan THEN sample
    ELSE Num(Max(0 - SampleUnit, Min(SampleUnit, sample.n)))

\* (sample < 0 ? sample * 0x8000 : sample * 0x7FFF) | 0: the product without
\* its fraction; NaN | 0 is 0
scaleSample(sample) ==
    IF sample.nan THEN 0
    ELSE IF sample.n < 0 THEN 0 - (((0 - sample.n) * 32768) \div SampleUnit)
    ELSE (sample.n * 32767) \div SampleUnit

\* variant: the byte rate leaves the channels out
wavHeader_MonoByteRate(buffer) ==
    LET numOfChan == buffer.numberOfChannels
        len == buffer.length * numOfChan * 2 + 44
    IN  setUint32(1179011410) \o setUint32(len - 8) \o setUint32(1163280727)
            \o setUint32(544501094) \o setUint32(16) \o setUint16(1)
            \o setUint16(numOfChan) \o setUint32(buffer.sampleRate)
            \o setUint32(buffer.sampleRate * 2)
            \o setUint16(numOfChan * 2) \o setUint16(16)
            \o setUint32(1635017060) \o setUint32(len - 40 - 4)

\* the thirteen header fields; offset is 40 when the last one is written
wavHeader(buffer) ==
    LET numOfChan == buffer.numberOfChannels
        len == buffer.length * numOfChan * 2 + 44
    IN  setUint32(1179011410) \o setUint32(len - 8) \o setUint32(1163280727)
            \o setUint32(544501094) \o setUint32(16) \o setUint16(1)
            \o setUint16(numOfChan) \o setUint32(buffer.sampleRate)
            \o setUint32(buffer.sampleRate * 2 * numOfChan)
            \o setUint16(numOfChan * 2) \o setUint16(16)
            \o setUint32(1635017060) \o setUint32(len - 40 - 4)

\* the two loops: frame by frame, and channel by channel within a frame
RECURSIVE wavData(_, _, _)
wavData(buffer, frame, ch) ==
    IF frame > buffer.length THEN <<>>
    ELSE IF ch > buffer.numberOfChannels THEN wavData(buffer, frame + 1, 1)
    ELSE setInt16(scaleSample(clampSample(buffer.channels[ch][frame])))
            \o wavData(buffer, frame, ch + 1)

bufferToWav(buffer) == wavHeader(buffer) \o wavData(buffer, 1, 1)

\* sample values below -1, at -1, between, at 1, above 1, and NaN
SampleValues == <<Num(0 - 3), Num(0 - 2), Num(0 - 1), Num(0), Num(1), Num(2), Num(3), NaN>>

SampleRates == {8000, 48000}

\* a buffer whose samples run through SampleValues from a given place on
AudioBufferOf(numOfChan, len, rate, from) ==
    [numberOfChannels |-> numOfChan, length |-> len, sampleRate |-> rate,
     channels |-> [ch \in 1..numOfChan |->
                      [frame \in 1..len |->
                          SampleValues[((from + (frame - 1) * numOfChan + ch - 1)
                                           % Len(SampleValues)) + 1]]]]

WavInit ==
    /\ \E numOfChan \in 1..MaxChannels, len \in 1..MaxFrames, rate \in SampleRates,
          from \in 0..(Len(SampleValues) - 1) :
        wavBuffer = AudioBufferOf(numOfChan, len, rate, from)
    /\ wavBlob = <<>>
    /\ TranscribeCalled /\ ai = TRUE /\ onProgressMay = "return"
    /\ sumOp = NoCall
    /\ jsonText = <<>> /\ srcLines = <<>> /\ cutAt = 0 /\ repaired = Pending
    /\ RewriteIdle /\ AppIdle
    /\ ChunkIdle /\ SliceIdle /\ AuthIdle

Encode ==
    /\ wavBlob = <<>>
    /\ wavBlob' = bufferToWav(wavBuffer)
    /\ UNCHANGED <<wavBuffer, orchVars, repairVars, sumOp, recVars, appVars,
                   chunkVars, sliceVars, authVars>>

SpecWav == WavInit /\ [][Encode]_vars

(***************************************************************************)
(* transcribeAudioChunk on its own: one generateContent answer, one        *)
(* outcome.  The answers are arrays whose objects carry any of the three    *)
(* keys of transcriptSchema, whole or with their last characters missing,   *)
(* and texts that are JSON but no array.                                    *)
(***************************************************************************)
MaxDropped == 1

Fields == <<speakerKey, timestampKey, textKey>>

FieldOf(l, key) ==
    IF key = speakerKey THEN l.speaker
    ELSE IF key = timestampKey THEN l.timestamp
    ELSE l.text

RECURSIVE JoinMembers(_, _)
JoinMembers(l, keys) ==
    IF keys = <<>> THEN <<>>
    ELSE Quoted(keys[1]) \o <<":">> \o Quoted(FieldOf(l, keys[1]))
            \o (IF Len(keys) > 1 THEN <<",">> \o JoinMembers(l, Tail(keys)) ELSE <<>>)

PartialObjectText(l, keys) == <<"{">> \o JoinMembers(l, keys) \o <<"}">>

KeySubsets ==
    { SelectSeq(Fields, LAMBDA key : key \in S) :
        S \in SUBSET {speakerKey, timestampKey, textKey} }

PartialObjects ==
    { PartialObjectText(Line(<<"A">>, <<"0", "0", ":", "1", "0">>, <<"h", "i">>), keys) :
        keys \in KeySubsets }

RECURSIVE JoinPartial(_)
JoinPartial(objs) ==
    IF objs = <<>> THEN <<>>
    ELSE IF Len(objs) = 1 THEN objs[1]
    ELSE objs[1] \o <<",">> \o JoinPartial(Tail(objs))

ChunkTexts ==
    { <<"[">> \o JoinPartial(objs) \o <<"]">> :
        objs \in SeqsUpTo(PartialObjects, MaxObjects) }
    \cup PartialObjects
    \cup { Quoted(<<"h", "i">>), <<"[">> \o Quoted(<<"h", "i">>) \o <<"]">> }

ChunkInit ==
    /\ \E text \in ChunkTexts, dropped \in 0..MaxDropped :
        chunkResponse \in { Answer(SubSeq(text, 1, Len(text) - dropped), "STOP"),
                            Answer(<<>>, "SAFETY"), Rejection(TRUE) }
    /\ chunkResult = <<>>
    /\ TranscribeCalled /\ ai = TRUE /\ onProgressMay = "return"
    /\ sumOp = NoCall
    /\ jsonText = <<>> /\ srcLines = <<>> /\ cutAt = 0 /\ repaired = Pending
    /\ RewriteIdle /\ AppIdle
    /\ WavIdle /\ SliceIdle /\ AuthIdle

\* generateContent settles and transcribeAudioChunk returns or throws
ChunkSettles ==
    /\ chunkResult = <<>>
    /\ chunkResult' = transcribeAudioChunk(chunkResponse)
    /\ UNCHANGED <<chunkResponse, orchVars, repairVars, sumOp, recVars, appVars,
                   wavVars, sliceVars, authVars>>

SpecChunk == ChunkInit /\ [][ChunkSettles]_vars

(***************************************************************************)
(* The sample offsets of the loop of transcribeAudio.  A Number is an      *)
(* IEEE-754 double: totalDuration = length / sampleRate is the quotient     *)
(* rounded to 53 significant bits, and endTime * sampleRate and             *)
(* chunkDuration * sampleRate are rounded again.  The double is kept as     *)
(* the pair of integers that fixes it: the binary exponent of the quotient  *)
(* and the remainder the division leaves after its 53rd bit.                *)
(***************************************************************************)
MaxTail == 30
MaxFull == 1

SliceRates == {44100, 48000}

Pow2(e) == IF e <= 0 THEN 1 ELSE 2 ^ e

SignificandBits == 53

\* the a with 2^a <= len / rate < 2^(a + 1)
binaryExponent(len, rate) ==
    IF len >= rate
    THEN CHOOSE a \in 0..29 :
            len \div Pow2(a) >= rate /\ len \div Pow2(a + 1) < rate
    ELSE 0 - (CHOOSE n \in 1..29 :
                len * Pow2(n) >= rate /\ len * Pow2(n - 1) < rate)

\* floor(log2 n)
floorLog2(n) == binaryExponent(n, 1)

RECURSIVE ShiftMod(_, _, _)
\* (x * 2^steps) % rate, fifteen bits at a time
ShiftMod(x, steps, rate) ==
    IF steps <= 15 THEN (x * Pow2(steps)) % rate
    ELSE ShiftMod((x * Pow2(15)) % rate, steps - 15, rate)

\* the quotient bit by bit: its last bit and the remainder under it
LongDivision(x, rate, steps) ==
    LET y == ShiftMod(x, steps - 1, rate) IN
    [rem |-> (2 * y) % rate, bit |-> IF 2 * y >= rate THEN 1 ELSE 0]

\* audioBuffer.duration: length / sampleRate, rounded to nearest, ties to even
duration(buffer) ==
    LET a == binaryExponent(buffer.length, buffer.sampleRate)
        d == LongDivision(buffer.length % buffer.sampleRate, buffer.sampleRate,
                          SignificandBits - 1 - a)
    IN  [exp |-> a, rem |-> d.rem,
         rounded |-> IF d.rem = 0 THEN "exact"
                     ELSE IF 2 * d.rem < buffer.sampleRate THEN "down"
                     ELSE IF 2 * d.rem > buffer.sampleRate THEN "up"
                     ELSE IF d.bit = 0 THEN "down" ELSE "up"]

\* err * 2^(exp - 52) > 2^(n - 53), the half of the spacing of the doubles at 2^n
ExceedsHalfUlp(err, exp, n) ==
    LET e == n - exp - 1 IN
    IF e < 0 THEN err * Pow2(0 - e) > 1 ELSE err > Pow2(e)

IsPowerOfTwo(n) == Pow2(floorLog2(n)) = n

\* Math.floor(totalDuration * sampleRate): the product is length less the
\* rounding error of the duration, rounded to the doubles around length
totalOffset(buffer) ==
    LET D == duration(buffer)
        below == IF IsPowerOfTwo(buffer.length) THEN floorLog2(buffer.length) - 1
                 ELSE floorLog2(buffer.length)
    IN  IF D.rounded = "down" /\ ExceedsHalfUlp(D.rem, D.exp, below)
        THEN buffer.length - 1
        ELSE buffer.length

sliceCount(buffer) ==
    CeilDiv(buffer.length, CHUNK_DURATION_SECONDS * buffer.sampleRate)

isLastSlice(buffer, k) == k = sliceCount(buffer) - 1

startOffset(buffer, k) == k * CHUNK_DURATION_SECONDS * buffer.sampleRate

endOffset(buffer, k) ==
    IF isLastSlice(buffer, k) THEN totalOffset(buffer)
    ELSE (k + 1) * CHUNK_DURATION_SECONDS * buffer.sampleRate

\* Math.ceil(chunkDuration * sampleRate): the difference endTime - start is
\* exact, its product with the rate is rounded to the doubles around it
chunkBufferLength(buffer, k) ==
    LET D == duration(buffer)
        rest == buffer.length - startOffset(buffer, k)
    IN  IF ~isLastSlice(buffer, k) THEN CHUNK_DURATION_SECONDS * buffer.sampleRate
        ELSE IF D.rounded = "up"
                /\ ExceedsHalfUlp(buffer.sampleRate - D.rem, D.exp, floorLog2(rest))
        THEN rest + 1
        ELSE rest

SliceInit ==
    /\ \E rate \in SliceRates, full \in 0..MaxFull, tail \in 0..MaxTail :
        /\ full + tail > 0
        /\ audio = [length |-> full * CHUNK_DURATION_SECONDS * rate + tail,
                    sampleRate |-> rate]
    /\ sliced = <<>>
    /\ TranscribeCalled /\ ai = TRUE /\ onProgressMay = "return"
    /\ sumOp = NoCall
    /\ jsonText = <<>> /\ srcLines = <<>> /\ cutAt = 0 /\ repaired = Pending
    /\ RewriteIdle /\ AppIdle
    /\ WavIdle /\ ChunkIdle /\ AuthIdle

\* one iteration of the loop: createBuffer and chunkData.set(subarray(...))
SliceChunk ==
    /\ Len(sliced) < sliceCount(audio)
    /\ LET k == Len(sliced) IN
       sliced' = Append(sliced,
                        [startOffset |-> startOffset(audio, k),
                         endOffset |-> Min(endOffset(audio, k), audio.length),
                         bufferLength |-> chunkBufferLength(audio, k)])
    /\ UNCHANGED <<audio, orchVars, repairVars, sumOp, recVars, appVars,
                   wavVars, chunkVars, authVars>>

SpecSlice == SliceInit /\ [][SliceChunk]_vars

(***************************************************************************)
(* authService: the users and the session kept in localStorage.  Emails    *)
(* are sequences of characters so that toLowerCase is computed.            *)
(***************************************************************************)
UpperCase == <<"A", "B", "C", "D", "E", "F", "G", "H", "I", "J", "K", "L", "M",
               "N", "O", "P", "Q", "R", "S", "T", "U", "V", "W", "X", "Y", "Z">>
LowerCase == <<"a", "b", "c", "d", "e", "f", "g", "h", "i", "j", "k", "l", "m",
               "n", "o", "p", "q", "r", "s", "t", "u", "v", "w", "x", "y", "z">>

toLowerCase(s) ==
    [k \in 1..Len(s) |->
        IF \E n \in 1..Len(UpperCase) : UpperCase[n] = s[k]
        THEN LowerCase[CHOOSE n \in 1..Len(UpperCase) : UpperCase[n] = s[k]]
        ELSE s[k]]

\* currentUserEmail: null (no sequence of characters)
null == <<"null">>

AtAudiomax == <<"@", "a", "u", "d", "i", "o", "m", "a", "x", ".", "c", "o", "m">>
adminEmail == <<"a", "d", "m", "i", "n">> \o AtAudiomax
demoEmail == <<"d", "e", "m", "o">> \o AtAudiomax

\* what a visitor types into the email field
TypedEmails ==
    { demoEmail, <<"D", "e", "m", "o">> \o AtAudiomax,
      <<"n", "e", "w">> \o AtAudiomax, <<"N", "E", "W">> \o AtAudiomax }

TypedPasswords == {"demouser123", "secret"}

MsgUserExists == "User with this email already exists."
MsgInvalidLogin == "Invalid email or password."

StoredUser(email, password, subscription, meetings) ==
    [email |-> email, password |-> password, subscription |-> subscription,
     meetings |-> meetings]

NoUser == StoredUser(null, "", "", <<>>)

\* the store after initializeDatabase on an empty localStorage
initializeDatabase ==
    [users |-> << StoredUser(adminEmail, "superadmin123", "Enterprise", <<>>),
                  StoredUser(demoEmail, "demouser123", "Free", <<"demo-meeting-1">>) >>,
     currentUserEmail |-> null]

\* the User objects updateUser is called with
UpdatedUsers ==
    { StoredUser(email, password, "Free", meetings) :
        email \in TypedEmails, password \in {"", "secret"}, meetings \in { <<>> } }

AuthReturn(data, user, error) == [data |-> data, user |-> user, error |-> error]

\* variant: the stored emails are compared as they are
signup_CaseSensitive(data, email, password) ==
    IF \E k \in 1..Len(data.users) : data.users[k].email = email
    THEN AuthReturn(data, NoUser, MsgUserExists)
    ELSE LET newUser == StoredUser(email, password, "Free", <<>>) IN
         AuthReturn([users |-> Append(data.users, newUser), currentUserEmail |-> email],
                   newUser, "")

signup(data, email, password) ==
    IF \E k \in 1..Len(data.users) :
            toLowerCase(data.users[k].email) = toLowerCase(email)
    THEN AuthReturn(data, NoUser, MsgUserExists)
    ELSE LET newUser == StoredUser(email, password, "Free", <<>>) IN
         AuthReturn([users |-> Append(data.users, newUser), currentUserEmail |-> email],
                   newUser, "")

login(data, email, password) ==
    LET found == { k \in 1..Len(data.users) :
                     /\ toLowerCase(data.users[k].email) = toLowerCase(email)
                     /\ data.users[k].password = password }
    IN  IF found # {}
        THEN AuthReturn([data EXCEPT !.currentUserEmail = email],
                       data.users[CHOOSE k \in found : \A n \in found : k <= n], "")
        ELSE AuthReturn(data, NoUser, MsgInvalidLogin)

logout(data) == AuthReturn([data EXCEPT !.currentUserEmail = null], NoUser, "")

updateUserData(data, updatedUser) ==
    LET found == { k \in 1..Len(data.users) :
                     toLowerCase(data.users[k].email) = toLowerCase(updatedUser.email) }
    IN  IF found # {}
        THEN LET userIndex == CHOOSE k \in found : \A n \in found : k <= n
                 existingPassword == data.users[userIndex].password
             IN  AuthReturn([data EXCEPT !.users[userIndex] =
                               [updatedUser EXCEPT !.password =
                                   IF updatedUser.password # "" THEN updatedUser.password
                                   ELSE existingPassword]],
                           NoUser, "")
        ELSE AuthReturn(data, NoUser, "Could not find user to update")

AuthInit ==
    /\ authData = initializeDatabase
    /\ authResult = [op |-> "initializeDatabase", email |-> null, user |-> NoUser,
                     error |-> ""]
    /\ TranscribeCalled /\ ai = TRUE /\ onProgressMay = "return"
    /\ sumOp = NoCall
    /\ jsonText = <<>> /\ srcLines = <<>> /\ cutAt = 0 /\ repaired = Pending
    /\ RewriteIdle /\ AppIdle
    /\ WavIdle /\ ChunkIdle /\ SliceIdle

\* writeData: localStorage.setItem stores the data, or throws and is ignored
AuthSettles(op, email, out) ==
    /\ \E stored \in BOOLEAN : authData' = IF stored THEN out.data ELSE authData
    /\ authResult' = [op |-> op, email |-> email, user |-> out.user, error |-> out.error]
    /\ UNCHANGED <<orchVars, repairVars, sumOp, recVars, appVars,
                   wavVars, chunkVars, sliceVars>>

Signup ==
    \E email \in TypedEmails, password \in TypedPasswords :
        AuthSettles("signup", email, signup(authData, email, password))

Login ==
    \E email \in TypedEmails, password \in TypedPasswords :
        AuthSettles("login", email, login(authData, email, password))

Logout == AuthSettles("logout", null, logout(authData))

UpdateUser ==
    \E updatedUser \in UpdatedUsers :
        AuthSettles("updateUser", updatedUser.email, updateUserData(authData, updatedUser))

AuthNext == Signup \/ Login \/ Logout \/ UpdateUser

SpecAuth == AuthInit /\ [][AuthNext]_vars

(***************************************************************************)
(* App: handleUploadAndProcess and handleTranslateMeeting                  *)
(*                                                                         *)
(* A handler works with the currentUser of the render that created it, so  *)
(* each call keeps the user it captured.  Of a meeting the id, the status, *)
(* the transcript, the summary and the translation are kept; an id is the  *)
(* clock value in `meeting-<clock>`, 0 for the seeded demo-meeting-1.      *)
(***************************************************************************)
MaxUploads == 2
MaxTranslations == 2

besideApp == <<orchVars, repairVars, sumOp, recVars, unitVars>>

NoSummary == NoValue

Meeting(id, transcript, summary) ==
    [id |-> id, status |-> "Transcribed", transcript |-> transcript,
     summary |-> summary, translatedSummary |-> NoValue]

\* what transcribeAudio may settle with
SampleTranscript == adjustedTranscript([t |-> "arr", v |-> LineValues(OneLine)], 0)
TranscribeOutcomes ==
    { Rejected(MsgGeneric), Resolved(<<>>), Resolved(SampleTranscript) }

\* what generateContent may settle with for the summary and the translation
UploadSummaryResponses ==
    { Answer(SummaryText("text", "one", "bare"), "STOP"),
      Answer(SummaryText("empty", "empty", "empty"), "STOP"),
      Rejection(TRUE) }
TranslationResponses ==
    { Answer(SummaryText("text", "one", "rationale"), "STOP"),
      Answer(<<>>, "STOP") }

DemoMeeting ==
    Meeting(0, SampleTranscript,
            JSONparse(SummaryText("text", "one", "rationale")).val)

createGuestUser == [email |-> "Guest", isGuest |-> TRUE, meetings |-> <<>>]
DemoUser == [email |-> "demo@audiomax.com", isGuest |-> FALSE, meetings |-> <<DemoMeeting>>]

\* what initializeDatabase leaves in the store: the meetings under each email
SeededUsers ==
    [email \in {"admin@audiomax.com", "demo@audiomax.com"} |->
        IF email = "demo@audiomax.com" THEN <<DemoMeeting>> ELSE <<>>]

\* authService.updateUser: the record with that email is replaced
updateUser(users, updatedUser) ==
    IF updatedUser.email \in DOMAIN users
    THEN [users EXCEPT ![updatedUser.email] = updatedUser.meetings]
    ELSE users

\* updateUserMeetings of the render that has `user` as its currentUser
updateUserMeetings(user, meetings) ==
    LET updatedUser == [user EXCEPT !.meetings = meetings] IN
    /\ storedUsers' = IF ~user.isGuest THEN updateUser(storedUsers, updatedUser)
                      ELSE storedUsers
    /\ currentUser' = updatedUser

NoUpload ==
    [pc |-> "none", n |-> 0, user |-> createGuestUser,
     transcribed |-> [status |-> "pending", error |-> "", value |-> <<>>],
     summaryRequests |-> 0, summary |-> NoSummary, error |-> ""]
NoTranslation ==
    [pc |-> "none", n |-> 0, user |-> createGuestUser, meetingId |-> 0, language |-> "",
     returned |-> NoSummary, error |-> ""]

\* the application after its first render: the signed-in user of the store,
\* or a guest
AppInit ==
    /\ currentUser \in {createGuestUser, DemoUser}
    /\ storedUsers = SeededUsers
    /\ currentPage = "dashboard"
    /\ selectedMeeting = NoMeeting
    /\ upload = NoUpload
    /\ translation = NoTranslation
    /\ nextId = 1
    /\ TranscribeCalled /\ ai = TRUE /\ onProgressMay = "return"
    /\ sumOp = NoCall
    /\ jsonText = <<>> /\ srcLines = <<>> /\ cutAt = 0 /\ repaired = Pending
    /\ RewriteIdle
    /\ WavIdle /\ ChunkIdle /\ SliceIdle /\ AuthIdle

\* handleViewMeeting, from the list of the dashboard
ViewMeeting ==
    /\ currentPage = "dashboard"
    /\ \E k \in 1..Len(currentUser.meetings) :
        selectedMeeting' = currentUser.meetings[k]
    /\ currentPage' = "transcription"
    /\ UNCHANGED <<currentUser, storedUsers, upload, translation, nextId>>
    /\ UNCHANGED besideApp

\* handleBackToDashboard, from the page or from the header
BackToDashboard ==
    /\ currentPage = "transcription"
    /\ selectedMeeting' = NoMeeting
    /\ currentPage' = "dashboard"
    /\ UNCHANGED <<currentUser, storedUsers, upload, translation, nextId>>
    /\ UNCHANGED besideApp

\* handleUploadAndProcess up to its first await; the overlay of the
\* processing page covers the window until the call is over
UploadStart ==
    /\ currentPage = "dashboard"
    /\ upload.n < MaxUploads
    /\ upload' = [NoUpload EXCEPT !.pc = "metadata", !.n = upload.n + 1,
                                  !.user = currentUser]
    /\ currentPage' = "processing"
    /\ UNCHANGED <<currentUser, storedUsers, selectedMeeting, translation, nextId>>
    /\ UNCHANGED besideApp

\* variant: the catch block keeps what was made so far as a meeting in progress
UploadCatch_KeepPartial(up, msg) ==
    /\ upload' = [up EXCEPT !.pc = "failed", !.error = msg]
    /\ updateUserMeetings(up.user,
                          <<[Meeting(nextId, up.transcribed.value, NoSummary)
                                EXCEPT !.status = "Processing"]>> \o up.user.meetings)
    /\ selectedMeeting' = NoMeeting
    /\ currentPage' = "dashboard"

\* the catch block: alert, then handleBackToDashboard; up is the call as it
\* stood when the error was thrown
UploadCatch(up, msg) ==
    /\ upload' = [up EXCEPT !.pc = "failed", !.error = msg]
    /\ selectedMeeting' = NoMeeting
    /\ currentPage' = "dashboard"
    /\ UNCHANGED <<currentUser, storedUsers>>

\* the pause and getAudioMetadata are over; transcribeAudio is called
UploadMetadata ==
    /\ upload.pc = "metadata"
    /\ \E loaded \in BOOLEAN :
        IF loaded
        THEN /\ upload' = [upload EXCEPT !.pc = "transcribing"]
             /\ UNCHANGED <<currentUser, storedUsers, selectedMeeting, currentPage>>
        ELSE UploadCatch(upload, "Failed to load audio metadata.")
    /\ UNCHANGED <<translation, nextId>>
    /\ UNCHANGED besideApp

\* variant: an empty transcript is summarized as any other
UploadTranscribed_AcceptEmpty ==
    /\ upload.pc = "transcribing"
    /\ \E transcript \in TranscribeOutcomes :
        IF transcript.status = "rejected"
        THEN UploadCatch(upload, transcript.error)
        ELSE /\ upload' = [upload EXCEPT !.pc = "summarizing",
                                         !.transcribed = transcript,
                                         !.summaryRequests = @ + 1]
             /\ UNCHANGED <<currentUser, storedUsers, selectedMeeting, currentPage>>
    /\ UNCHANGED <<translation, nextId>>
    /\ UNCHANGED besideApp

\* transcribeAudio settles; generateMeetingSummary is called for a transcript
\* that is not empty
UploadTranscribed ==
    /\ upload.pc = "transcribing"
    /\ \E transcript \in TranscribeOutcomes :
        IF transcript.status = "rejected"
        THEN UploadCatch(upload, transcript.error)
        ELSE IF Len(transcript.value) = 0
        THEN UploadCatch([upload EXCEPT !.transcribed = transcript],
                         "Transcription failed or returned no content.")
        ELSE /\ upload' = [upload EXCEPT !.pc = "summarizing",
                                         !.transcribed = transcript,
                                         !.summaryRequests = @ + 1]
             /\ UNCHANGED <<currentUser, storedUsers, selectedMeeting, currentPage>>
    /\ UNCHANGED <<translation, nextId>>
    /\ UNCHANGED besideApp

\* generateMeetingSummary settles; the new meeting is built and the second
\* pause begins
UploadSummarized ==
    /\ upload.pc = "summarizing"
    /\ \E resp \in UploadSummaryResponses :
        LET out == generateMeetingSummary(resp) IN
        IF out.ok
        THEN /\ upload' = [upload EXCEPT !.pc = "finalizing", !.summary = out.val]
             /\ UNCHANGED <<currentUser, storedUsers, selectedMeeting, currentPage>>
        ELSE UploadCatch(upload, out.error)
    /\ UNCHANGED <<translation, nextId>>
    /\ UNCHANGED besideApp

\* the second pause is over: the meeting is put before the meetings the
\* handler's render had and shown
UploadFinalize ==
    /\ upload.pc = "finalizing"
    /\ LET newMeeting == Meeting(nextId, upload.transcribed.value, upload.summary) IN
       /\ updateUserMeetings(upload.user, <<newMeeting>> \o upload.user.meetings)
       /\ selectedMeeting' = newMeeting
    /\ currentPage' = "transcription"
    /\ upload' = [upload EXCEPT !.pc = "complete"]
    /\ nextId' = nextId + 1
    /\ UNCHANGED translation
    /\ UNCHANGED besideApp

\* m.id === meetingId ? { ...m, status, translatedSummary } : m
withTranslation(m, meetingId, language, translatedSummary) ==
    IF m # NoMeeting /\ m.id = meetingId
    THEN [m EXCEPT !.status = "Translated",
                   !.translatedSummary = [language |-> language,
                                          summary |-> translatedSummary]]
    ELSE m

\* the Translate button of the transcription page: handleTranslateMeeting up
\* to its await, or its throw when the meeting is not among the user's
TranslateStart ==
    /\ currentPage = "transcription"
    /\ selectedMeeting # NoMeeting
    /\ translation.pc # "awaiting"
    /\ translation.n < MaxTranslations
    /\ \E language \in Languages :
        LET found == { k \in 1..Len(currentUser.meetings) :
                          currentUser.meetings[k].id = selectedMeeting.id }
            call == [NoTranslation EXCEPT !.n = translation.n + 1, !.user = currentUser,
                                          !.meetingId = selectedMeeting.id,
                                          !.language = language]
        IN  IF found = {} \/ \A k \in found : ~truthy(currentUser.meetings[k].summary)
            THEN translation' = [call EXCEPT !.pc = "failed",
                                             !.error = "Meeting or summary not found for translation."]
            ELSE translation' = [call EXCEPT !.pc = "awaiting"]
    /\ UNCHANGED <<currentUser, storedUsers, currentPage, selectedMeeting, upload, nextId>>
    /\ UNCHANGED besideApp

\* translateSummary settles: the rest of handleTranslateMeeting
TranslateSettles ==
    /\ translation.pc = "awaiting"
    /\ \E resp \in TranslationResponses :
        LET out == translateSummary(resp, translation.language) IN
        IF out.ok
        THEN LET meetings == translation.user.meetings
                 updatedMeetings ==
                     [k \in 1..Len(meetings) |->
                         withTranslation(meetings[k], translation.meetingId,
                                         translation.language, out.val)]
             IN  /\ updateUserMeetings(translation.user, updatedMeetings)
                 /\ selectedMeeting' = withTranslation(selectedMeeting, translation.meetingId,
                                                       translation.language, out.val)
                 /\ translation' = [translation EXCEPT !.pc = "complete", !.returned = out.val]
        ELSE /\ translation' = [translation EXCEPT !.pc = "failed", !.error = out.error]
             /\ UNCHANGED <<currentUser, storedUsers, selectedMeeting>>
    /\ UNCHANGED <<currentPage, upload, nextId>>
    /\ UNCHANGED besideApp

AppNext ==
    \/ ViewMeeting
    \/ BackToDashboard
    \/ UploadStart
    \/ UploadMetadata
    \/ UploadTranscribed
    \/ UploadSummarized
    \/ UploadFinalize
    \/ TranslateStart
    \/ TranslateSettles

SpecApp == AppInit /\ [][AppNext]_vars

(***************************************************************************)
(* Properties of transcribeAudio                                           *)
(***************************************************************************)
Sliced == pc \in {"loop", "encoding", "awaiting", "done", "failed"}

\* the count n with (n - 1) * 59 < D <= n * 59, D = len / rate seconds
CeilCount(len, rate) ==
    CHOOSE n \in 0..len : (n - 1) * 59 * rate < len /\ len <= n * 59 * rate

\* C1: for D > 0 the audio is cut into ceil(D / 59) windows; window k starts
\* at k * 59, all but the last are 59 seconds long, the last is what is left,
\* and together they cover [0, D) without gap or overlap.
C1_Partition ==
    (Sliced /\ length > 0) =>
        LET n == CeilCount(length, sampleRate) IN
        /\ numberOfChunks = n
        /\ Len(segments) <= n
        /\ \A k \in 1..Len(segments) :
            /\ segments[k].index = k - 1
            /\ segments[k].start = (k - 1) * 59 * sampleRate
            /\ segments[k].end = segments[k].start + segments[k].duration
            /\ k < n => segments[k].duration = 59 * sampleRate
            /\ k = n => segments[k].duration = length - (n - 1) * 59 * sampleRate
            /\ k > 1 => segments[k].start = segments[k - 1].end
        /\ pc = "done" => (Len(segments) = n /\ segments[n].end = length)

C1_Witness ==
    /\ pc = "done" /\ length = 130 /\ sampleRate = 1
    /\ Len(segments) = 3
    /\ segments[3].duration = 12

\* a timestamp of the form MM:SS with two digits each
WellFormed(ts) ==
    /\ Len(ts) = 5 /\ ts[3] = ":"
    /\ \A k \in {1, 2, 4, 5} : ts[k] \in Digits

RelativeSeconds(ts) ==
    (10 * DigitVal(ts[1]) + DigitVal(ts[2])) * 60 + 10 * DigitVal(ts[4]) + DigitVal(ts[5])

\* ts reads minutes:seconds, minutes of two digits or more, seconds of two
\* digits below 60, and stands for the given number of seconds
ShowsSeconds(ts, seconds) ==
    /\ Len(ts) >= 5 /\ ts[Len(ts) - 2] = ":"
    /\ \A k \in (1..Len(ts)) \ {Len(ts) - 2} : ts[k] \in Digits
    /\ 10 * DigitVal(ts[Len(ts) - 1]) + DigitVal(ts[Len(ts)]) < 60
    /\ DigitsValue(SubSeq(ts, 1, Len(ts) - 3), 0) * 60
         + 10 * DigitVal(ts[Len(ts) - 1]) + DigitVal(ts[Len(ts)]) = seconds

StampOf(line) == line.v[timestampKey].v

\* entries of chunkLog whose lines were returned to the loop
Returned(e) == e.out.ok /\ e.out.val.t = "arr"

\* C2: in the returned transcript a line of chunk k whose relative timestamp
\* is a well-formed MM:SS shows floor(k * 59 + MM * 60 + SS) as
\* minutes:seconds; for 130 seconds of audio, 00:10 of the second chunk
\* becomes 01:09.
C2_AbsoluteTimestamps ==
    pc = "done" =>
        \A m \in 1..Len(chunkLog) :
            LET e == chunkLog[m] IN
            Returned(e) =>
                \A q \in 1..Len(e.out.val.v) :
                    LET line == e.out.val.v[q] IN
                    (hasTimestamp(line) /\ WellFormed(StampOf(line))) =>
                        /\ e.offset + q <= Len(result.value)
                        /\ ShowsSeconds(StampOf(result.value[e.offset + q]),
                                        e.chunk * 59 + RelativeSeconds(StampOf(line)))
                        /\ (length = 130 * sampleRate /\ e.chunk = 1
                                /\ StampOf(line) = <<"0", "0", ":", "1", "0">>)
                             => StampOf(result.value[e.offset + q])
                                   = <<"0", "1", ":", "0", "9">>

C2_Witness ==
    /\ pc = "done" /\ length = 130 /\ sampleRate = 1
    /\ Len(chunkLog) = 3
    /\ chunkLog[2].out.val = [t |-> "arr", v |-> LineValues(OneLine)]
    /\ StampOf(result.value[chunkLog[2].offset + 1]) = <<"0", "1", ":", "0", "9">>

\* what the response makes of transcribeAudioChunk, read off the response
NoContent(resp) == ~resp.rejected /\ resp.text = <<>>
Unparsable(resp) ==
    ~resp.rejected /\ resp.text # <<>> /\ ~JSONparse(trim(resp.text)).ok
RepairedOk(resp) == Unparsable(resp) /\ repairAndParseJsonArray(trim(resp.text)).ok
Fatal(resp) ==
    \/ resp.rejected
    \/ NoContent(resp)
    \/ (Unparsable(resp) /\ ~repairAndParseJsonArray(trim(resp.text)).ok)

\* C3: a fatal failure of the transcriber on chunk k fails the whole run: no
\* transcript is returned, no later chunk is submitted and the message
\* 'Combining transcripts...' is never reported.
C3_FatalAborts ==
    \A m \in 1..Len(chunkLog) :
        Fatal(chunkLog[m].resp) =>
            /\ pc = "failed"
            /\ result.status = "rejected"
            /\ result.value = <<>>
            /\ \A r \in 1..Len(requests) : requests[r] <= chunkLog[m].chunk
            /\ \A r \in 1..Len(progress) : progress[r].text # "Combining transcripts..."

C3_Witness ==
    /\ Len(chunkLog) = 2 /\ numberOfChunks = 3
    /\ Fatal(chunkLog[2].resp)
    /\ combinedTranscript # <<>>
    /\ pc = "failed"

Count(f, x) == Cardinality({ k \in DOMAIN f : f[k] = x })

\* the keys of a line other than its timestamp, with their values
Rest(line) == [key \in (DOMAIN line.v) \ {timestampKey} |-> line.v[key]]

C5_NoContentErrors ==
    \A m \in 1..Len(chunkLog) :
        LET e == chunkLog[m] IN
        NoContent(e.resp) =>
            /\ result.status = "rejected"
            /\ result.error =
                 CASE e.resp.finishReason = "SAFETY" ->
                        "Transcription failed because the content was blocked for safety reasons."
                   [] e.resp.finishReason = "MAX_TOKENS" ->
                        "Transcription failed because the audio is too long, exceeding the model's token limit."
                   [] OTHER ->
                        "The model returned no content. This might be due to a safety block or an issue with the audio file."
            /\ ~e.out.repairTried
            /\ Count(alerts, e.chunk) = 0

C5_Witness ==
    /\ pc = "failed" /\ Len(chunkLog) = 2
    /\ NoContent(chunkLog[2].resp) /\ chunkLog[2].resp.finishReason = "MAX_TOKENS"
    /\ result.error = MsgMaxTokens

\* the seconds a minutes:seconds timestamp stands for
ClockSeconds(ts) ==
    LET parts == split(ts, ":") IN
    DigitsValue(parts[1], 0) * 60 + DigitsValue(parts[2], 0)

\* C8: the lines of a returned transcript are in non-decreasing order of
\* absolute timestamp.
C8_TranscriptSorted ==
    pc = "done" =>
        \A a \in 1..Len(result.value) : \A b \in 1..Len(result.value) :
            a < b => ClockSeconds(StampOf(result.value[a]))
                        <= ClockSeconds(StampOf(result.value[b]))

EventsOf(kind) == { x \in 1..Len(events) : events[x].kind = kind }

\* C9: at most one model request is in flight; chunks are submitted in
\* strictly increasing order, and each only after the response of the one
\* before was received, reconciled and appended.
C9_Sequential ==
    /\ Cardinality(inFlight) <= 1
    /\ \A a \in 1..Len(requests) : \A b \in 1..Len(requests) :
            a < b => requests[a] < requests[b]
    /\ Len(requests) <= Len(chunkLog) + 1
    /\ \A x \in EventsOf("request") : \A y \in EventsOf("request") :
            y < x =>
                \E z \in EventsOf("response") :
                    /\ y < z /\ z < x
                    /\ events[z].k = events[y].k
                    /\ events[x].k = events[y].k + 1 =>
                        /\ events[x].lines = events[z].lines
                        /\ \E m \in 1..Len(chunkLog) :
                            /\ chunkLog[m].chunk + 1 = events[z].k
                            /\ Returned(chunkLog[m])
                            /\ events[z].lines
                                 = events[y].lines + Len(chunkLog[m].out.val.v)

C9_Witness ==
    /\ pc = "awaiting" /\ requests = <<0, 1, 2>>
    /\ inFlight = {2}
    /\ Len(combinedTranscript) = 3

\* C10: a successful run over N chunks reports N + 2 messages: decoding,
\* chunk 1 .. N of N in order, combining; the message of chunk k comes before
\* the request for chunk k and after the response for chunk k - 1.
C10_ProgressOrder ==
    /\ pc = "done" =>
        /\ Len(progress) = numberOfChunks + 2
        /\ progress[1] = [text |-> "Decoding audio file...", k |-> 0, n |-> 0]
        /\ \A k \in 1..numberOfChunks :
              progress[k + 1]
                 = [text |-> "Transcribing chunk k of n...", k |-> k, n |-> numberOfChunks]
        /\ progress[numberOfChunks + 2]
              = [text |-> "Combining transcripts...", k |-> 0, n |-> 0]
        /\ Len(requests) = numberOfChunks
    /\ \A x \in EventsOf("request") :
          \E y \in EventsOf("progress") :
              /\ y < x /\ events[y].k = events[x].k
              /\ \A z \in EventsOf("response") :
                    events[z].k = events[x].k - 1 => z < y

C10_Witness ==
    /\ pc = "done" /\ numberOfChunks = 3
    /\ Len(progress) = 5
    /\ Cardinality(EventsOf("response")) = 3

(***************************************************************************)
(* The progress callback                                                   *)
(***************************************************************************)
\* C11: the progress callback decides nothing: whatever it does, throwing
\* included, a run of transcribeAudio is rejected only for want of a client,
\* by the decoder or by the transcriber, never with the callback's own error.
C11_CallbackDecidesNothing ==
    result.status = "rejected" => result.error # MsgCallback

(***************************************************************************)
(* Audio of no length                                                      *)
(***************************************************************************)
\* the buffer was decoded: the run is in its loop, or past it
DecodeSucceeded ==
    \/ pc \in {"loop", "encoding", "awaiting", "done"}
    \/ pc = "failed" /\ Len(progress) >= 2

\* C12: decoded audio of duration 0 gives no segment and no model request,
\* and the run does not fail: it returns the empty transcript.
C12_ZeroDurationEmpty ==
    (DecodeSucceeded /\ length = 0) =>
        /\ numberOfChunks = 0
        /\ segments = <<>>
        /\ requests = <<>>
        /\ pc # "failed"
        /\ pc = "done" => result = Resolved(<<>>)

C12_Witness ==
    /\ pc = "done" /\ length = 0
    /\ progress = <<MsgDecoding, MsgCombining>>
    /\ result = Resolved(<<>>)

(***************************************************************************)
(* Properties of generateMeetingSummary and translateSummary               *)
(***************************************************************************)
ParsedSummary(resp) == JSONparse(trim(resp.text))

SummaryKeys == {executiveSummaryKey, actionItemsKey, keyDecisionsKey}

\* the response parses to an object
ParsesToObject(resp) ==
    /\ ~resp.rejected /\ resp.text # <<>>
    /\ ParsedSummary(resp).ok
    /\ ParsedSummary(resp).val.t = "obj"

LacksField(resp) ==
    ParsesToObject(resp) /\ \E key \in SummaryKeys : key \notin DOMAIN ParsedSummary(resp).val.v

AllFieldsPresent(resp) ==
    ParsesToObject(resp) /\ \A key \in SummaryKeys : key \in DOMAIN ParsedSummary(resp).val.v

\* no text, text that does not parse, or a rejected request
OtherFailure(resp) ==
    resp.rejected \/ resp.text = <<>> \/ ~ParsedSummary(resp).ok

\* generateMeetingSummary has settled
SummarySettled ==
    /\ sumOp.fn = "generateMeetingSummary"
    /\ sumOp.requests = 1
    /\ sumOp.pc \in {"returned", "threw"}

\* C15: a parsed summary that lacks one of executiveSummary, actionItems and
\* keyDecisions makes generateMeetingSummary fail with an error that differs
\* from the error of an empty response, of a parse failure and of a
\* transport failure.
C15_InvalidShapeDistinct ==
    (SummarySettled /\ LacksField(sumOp.resp)) =>
        /\ sumOp.pc = "threw"
        /\ \A other \in SummaryResponses :
              OtherFailure(other) => generateMeetingSummary(other).error # sumOp.out.error

\* C16: with the three fields present generateMeetingSummary returns the
\* parsed summary whatever their values: an empty executiveSummary, empty
\* arrays, a decision without rationale.
C16_PresentFieldsAccepted ==
    (SummarySettled /\ AllFieldsPresent(sumOp.resp)) =>
        /\ sumOp.pc = "returned"
        /\ sumOp.out.val = ParsedSummary(sumOp.resp).val

\* C17: nothing is retried: every segment is submitted at most once and a
\* failed chunk ends the run; a call of generateMeetingSummary or
\* translateSummary issues at most one request and fails when that one
\* attempt fails.
C17_NoRetry ==
    /\ \A c \in 0..numberOfChunks : Count(requests, c) <= 1
    /\ \A m \in 1..Len(chunkLog) :
          ~chunkLog[m].out.ok => (m = Len(chunkLog) /\ pc = "failed")
    /\ sumOp.requests <= 1
    /\ (sumOp.requests = 1 /\ sumOp.pc # "awaiting" /\ OtherFailure(sumOp.resp))
          => sumOp.pc = "threw"

C17_Witness ==
    /\ sumOp.fn = "translateSummary"
    /\ sumOp.pc = "threw" /\ sumOp.requests = 1
    /\ ~sumOp.resp.rejected /\ sumOp.resp.text # <<>> /\ ~ParsedSummary(sumOp.resp).ok

(***************************************************************************)
(* Properties of the timestamp rewrite                                     *)
(***************************************************************************)
\* text that reads as an integer: digits, with a sign or without
NumericField(f) ==
    \/ AllDigits(f)
    \/ Len(f) >= 2 /\ Head(f) \in {"-", "+"} /\ AllDigits(Tail(f))

FieldValue(f) ==
    IF AllDigits(f) THEN DigitsValue(f, 0)
    ELSE IF Head(f) = "-" THEN 0 - DigitsValue(Tail(f), 0)
    ELSE DigitsValue(Tail(f), 0)

\* no timestamp, not two fields between colons, or a field that is no number
Malformed(line) ==
    \/ ~hasTimestamp(line)
    \/ LET fields == split(StampOf(line), ":") IN
       \/ Len(fields) # 2
       \/ \E k \in 1..Len(fields) : ~NumericField(fields[k])

\* the seconds a line with two numeric fields stands for
FieldSeconds(line) ==
    LET fields == split(StampOf(line), ":") IN
    FieldValue(fields[1]) * 60 + FieldValue(fields[2])

\* C19: a line whose timestamp is malformed (not two fields, a field that is
\* not numeric, an empty field, no timestamp at all) is passed through as it
\* is and does not make the rewrite fail; the other lines of the batch are
\* rewritten.
C19_MalformedPassesThrough ==
    recOut # SumPending =>
        /\ recOut.ok
        /\ \A k \in 1..Len(recIn.v) :
              IF Malformed(recIn.v[k])
              THEN recOut.val.v[k] = recIn.v[k]
              ELSE /\ Rest(recOut.val.v[k]) = Rest(recIn.v[k])
                   /\ WellFormed(StampOf(recIn.v[k])) =>
                          ShowsSeconds(StampOf(recOut.val.v[k]),
                                       recStart + RelativeSeconds(StampOf(recIn.v[k])))

\* ts reads minutes:seconds: minutes of two digits or more, seconds of two
\* digits from 00 to 59
MinutesSeconds(ts) ==
    LET fields == split(ts, ":") IN
    /\ Len(fields) = 2
    /\ AllDigits(fields[1]) /\ Len(fields[1]) >= 2
    /\ AllDigits(fields[2]) /\ Len(fields[2]) = 2
    /\ DigitsValue(fields[2], 0) <= 59

\* C20: every rewritten timestamp, whatever integers its two fields are
\* (above 59 and below 0 included), reads minutes:seconds with seconds of two
\* digits from 00 to 59 and minutes padded with zeros to two digits or more.
C20_RenderedMinutesSeconds ==
    recOut.ok =>
        \A k \in 1..Len(recIn.v) :
            ~Malformed(recIn.v[k]) => MinutesSeconds(StampOf(recOut.val.v[k]))

(***************************************************************************)
(* Properties of handleUploadAndProcess and handleTranslateMeeting         *)
(***************************************************************************)
\* C13: an empty transcript from transcribeAudio is a failure of
\* handleUploadAndProcess: the summary is not requested, no meeting is
\* created and the page is the dashboard again.
C13_EmptyTranscriptFails ==
    [][ (upload.pc = "transcribing" /\ upload'.transcribed = Resolved(<<>>)) =>
            /\ upload'.pc = "failed"
            /\ upload'.summaryRequests = 0
            /\ currentUser' = currentUser /\ storedUsers' = storedUsers
            /\ nextId' = nextId
            /\ selectedMeeting' = NoMeeting
            /\ currentPage' = "dashboard" ]_vars

C13_Witness ==
    /\ upload.pc = "failed" /\ upload.transcribed = Resolved(<<>>)
    /\ upload.summaryRequests = 0
    /\ currentPage = "dashboard" /\ selectedMeeting = NoMeeting

\* C14: an upload that fails at any stage (metadata, transcription, empty
\* transcript, summary) persists nothing: no step of it but the last one of
\* a successful upload touches the user's meetings or the stored record, and
\* the failing step leaves no meeting selected and the dashboard as the
\* page; when no translation ran, the user is the one the upload started with.
C14_FailureKeepsNothing ==
    [][ (upload' # upload /\ upload'.pc # "complete") =>
            /\ currentUser' = currentUser
            /\ storedUsers' = storedUsers
            /\ upload'.pc = "failed" =>
                  /\ selectedMeeting' = NoMeeting
                  /\ currentPage' = "dashboard"
                  /\ translation.pc = "none" => currentUser' = upload.user ]_vars

C14_Witness ==
    /\ upload.pc = "failed" /\ upload.summaryRequests = 1
    /\ ~currentUser.isGuest
    /\ storedUsers[currentUser.email] = currentUser.meetings
    /\ currentUser.meetings = <<DemoMeeting>>
    /\ currentPage = "dashboard" /\ selectedMeeting = NoMeeting

\* the meetings of a list, as a set
MeetingsOf(user) == { user.meetings[k] : k \in 1..Len(user.meetings) }

\* C18: a successful handleTranslateMeeting(meetingId, language) leaves the
\* summary and the transcript of the meeting as they were, sets its
\* translatedSummary to the language and the returned summary and its status
\* to 'Translated', and leaves every other meeting of the user as it was; a
\* failed translation leaves the user's meetings as they were.
C18_TranslationKeepsOriginal ==
    [][ /\ (translation.pc = "awaiting" /\ translation'.pc = "complete") =>
              /\ Len(currentUser'.meetings) = Len(currentUser.meetings)
              /\ \A k \in 1..Len(currentUser.meetings) :
                    LET m == currentUser.meetings[k]
                        n == currentUser'.meetings[k]
                    IN  IF m.id = translation.meetingId
                        THEN /\ n.id = m.id
                             /\ n.summary = m.summary
                             /\ n.transcript = m.transcript
                             /\ n.status = "Translated"
                             /\ n.translatedSummary =
                                   [language |-> translation.language,
                                    summary |-> translation'.returned]
                        ELSE n = m
        /\ (translation.pc = "awaiting" /\ translation'.pc = "failed") =>
              currentUser' = currentUser /\ storedUsers' = storedUsers ]_vars

(***************************************************************************)
(* Properties of bufferToWav                                               *)
(***************************************************************************)
ReadU16(bytes, off) == bytes[off + 1] + 256 * bytes[off + 2]
ReadU32(bytes, off) ==
    bytes[off + 1] + 256 * bytes[off + 2] + 65536 * bytes[off + 3]
        + 16777216 * bytes[off + 4]
ReadI16(bytes, off) ==
    IF ReadU16(bytes, off) >= 32768 THEN ReadU16(bytes, off) - 65536
    ELSE ReadU16(bytes, off)

\* the four characters of a tag, as their codes
Tag(a, b, c, d) == <<a, b, c, d>>
TagAt(bytes, off) == SubSeq(bytes, off + 1, off + 4)

Encoded == wavBlob # <<>>

\* C21: the blob of a buffer of C channels, F frames and rate R has
\* 44 + F*C*2 bytes and a header that agrees with it: RIFF, size - 8, WAVE,
\* fmt, PCM, C channels, rate R, byte rate R*C*2, block align C*2, 16 bits,
\* data, F*C*2 data bytes; the header gives back F and C, and the sample of
\* channel ch in frame f lies at place f*C + ch of the data.
C21_WavHeaderConsistent ==
    Encoded =>
        LET C == wavBuffer.numberOfChannels
            F == wavBuffer.length
            R == wavBuffer.sampleRate
        IN  /\ Len(wavBlob) = 44 + F * C * 2
            /\ \A k \in 1..Len(wavBlob) : wavBlob[k] \in 0..255
            /\ TagAt(wavBlob, 0) = Tag(82, 73, 70, 70)
            /\ ReadU32(wavBlob, 4) = Len(wavBlob) - 8
            /\ TagAt(wavBlob, 8) = Tag(87, 65, 86, 69)
            /\ TagAt(wavBlob, 12) = Tag(102, 109, 116, 32)
            /\ ReadU32(wavBlob, 16) = 16
            /\ ReadU16(wavBlob, 20) = 1
            /\ ReadU16(wavBlob, 22) = C
            /\ ReadU32(wavBlob, 24) = R
            /\ ReadU32(wavBlob, 28) = R * C * 2
            /\ ReadU16(wavBlob, 32) = C * 2
            /\ ReadU16(wavBlob, 34) = 16
            /\ TagAt(wavBlob, 36) = Tag(100, 97, 116, 97)
            /\ ReadU32(wavBlob, 40) = F * C * 2
            /\ ReadU32(wavBlob, 40) \div ReadU16(wavBlob, 32) = F
            /\ \A f \in 0..(F - 1), ch \in 0..(C - 1) :
                  ReadI16(wavBlob, 44 + (f * C + ch) * 2) =
                      scaleSample(clampSample(wavBuffer.channels[ch + 1][f + 1]))

C21_Witness ==
    /\ Encoded
    /\ wavBuffer.numberOfChannels = 2 /\ wavBuffer.length = 3
    /\ wavBuffer.sampleRate = 48000
    /\ Len(wavBlob) = 56

\* the samples of the buffer with what was written for them
Written ==
    { [sample |-> wavBuffer.channels[ch + 1][f + 1],
       int |-> ReadI16(wavBlob, 44 + (f * wavBuffer.numberOfChannels + ch) * 2)] :
          f \in 0..(wavBuffer.length - 1), ch \in 0..(wavBuffer.numberOfChannels - 1) }

\* C22: what is written for a sample is the scaled sample itself, within
\* -32768..32767 and never wrapped: -32768 for a sample of -1 or less, 32767
\* for 1 or more, and no smaller for a larger sample; the header carries
\* the channel count and the sample rate of the buffer.
C22_SamplesClamped ==
    Encoded =>
        /\ \A w \in Written :
              ~w.sample.nan =>
                  /\ w.sample.n <= 0 - SampleUnit => w.int = 0 - 32768
                  /\ w.sample.n >= SampleUnit => w.int = 32767
                  /\ w.int \in (0 - 32768)..32767
        /\ \A v, w \in Written :
              (~v.sample.nan /\ ~w.sample.nan /\ v.sample.n <= w.sample.n)
                  => v.int <= w.int
        /\ ReadU16(wavBlob, 22) = wavBuffer.numberOfChannels
        /\ ReadU32(wavBlob, 24) = wavBuffer.sampleRate

C22_Witness ==
    /\ Encoded
    /\ \E v, w \in Written :
          /\ ~v.sample.nan /\ v.sample.n < 0 - SampleUnit /\ v.int = 0 - 32768
          /\ ~w.sample.nan /\ w.sample.n > SampleUnit /\ w.int = 32767

(***************************************************************************)
(* Termination of transcribeAudio                                          *)
(***************************************************************************)
Settled == pc \in {"done", "failed"}

\* C23: a run of transcribeAudio in which decoding and every request settle
\* ends, with a transcript or with an error, after at most ceil(D / 59)
\* requests; until then it always has a next step, so it is never cancelled
\* and never left waiting.
C23_RunsToTheEnd ==
    /\ <>Settled
    /\ [](Sliced => Len(requests) <= CeilCount(length, sampleRate))
    /\ [](Settled \/ ENABLED TranscribeNext)

C23_Witness ==
    /\ pc = "done" /\ numberOfChunks = 3
    /\ Len(requests) = 3 /\ inFlight = {}

(***************************************************************************)
(* Reconciliation rewrites line by line                                    *)
(***************************************************************************)
IsPrefix(s, t) == Len(s) <= Len(t) /\ SubSeq(t, 1, Len(s)) = s

Appended == SubSeq(combinedTranscript', Len(combinedTranscript) + 1,
                   Len(combinedTranscript'))

LastAnswer == chunkLog'[Len(chunkLog')].out.val

\* C24: no step changes, removes or reorders a line already in the combined
\* transcript, and the step that reconciles a chunk appends exactly the lines
\* the chunk returned, in their order, each with its speaker and text (every
\* key but the timestamp) as returned.
C24_PerLineRewrite ==
    [][ /\ IsPrefix(combinedTranscript, combinedTranscript')
        /\ (Len(chunkLog') > Len(chunkLog) /\ pc' # "failed") =>
              /\ Len(Appended) = Len(LastAnswer.v)
              /\ \A k \in 1..Len(Appended) :
                    Rest(Appended[k]) = Rest(LastAnswer.v[k]) ]_vars

C24_Witness ==
    /\ Len(chunkLog) = 2 /\ pc = "loop"
    /\ Len(chunkLog[1].out.val.v) = 2 /\ Len(chunkLog[2].out.val.v) = 1
    /\ Len(combinedTranscript) = 3
    /\ Rest(combinedTranscript[3]) = Rest(chunkLog[2].out.val.v[1])
    /\ StampOf(combinedTranscript[3]) # StampOf(chunkLog[2].out.val.v[1])

(***************************************************************************)
(* The skip branch                                                         *)
(***************************************************************************)
ChunkMessages == { x \in 1..Len(progress) : progress[x].k >= 1 }

\* C27: for D > 0 every chunk index below ceil(D / 59) has a strictly
\* positive duration, so no iteration is skipped: each 'chunk k of N' message
\* is followed by a segment, and a successful run has issued exactly
\* ceil(D / 59) requests, the k-th one for the k-th message.
C27_NoChunkSkipped ==
    (Sliced /\ length > 0) =>
        /\ \A k \in 0..(numberOfChunks - 1) : chunkDuration(k) > 0
        /\ \A x \in 1..Len(segments) :
              segments[x].duration > 0 /\ segments[x].index = x - 1
        /\ Cardinality(ChunkMessages) = Len(segments)
        /\ pc = "done" =>
              /\ Len(requests) = CeilCount(length, sampleRate)
              /\ Len(requests) = numberOfChunks
              /\ Cardinality(ChunkMessages) = Len(requests)
              /\ \A k \in 1..Len(requests) :
                    /\ requests[k] = k - 1
                    /\ \E x \in ChunkMessages :
                          progress[x] = MsgChunk(k, numberOfChunks)

C27_Witness ==
    /\ pc = "done" /\ length = 119 /\ sampleRate = 2
    /\ numberOfChunks = 2 /\ requests = <<0, 1>>
    /\ segments[2].duration = 1
    /\ Cardinality(ChunkMessages) = 2

(***************************************************************************)
(* What a successful repair returns                                        *)
(***************************************************************************)
\* C28: a repair that succeeds on a cut array of transcript objects returns
\* the first n objects of the array as they were, for some n whose closing
\* braces all arrived; a text that does not start with '[' is never repaired.
C28_RepairReturnsPrefix ==
    /\ (Repaired /\ repaired.ok) =>
          \E n \in 0..Len(srcLines) :
              /\ n >= 1 => ObjectEnd(srcLines, n) <= cutAt
              /\ repaired.val = [t |-> "arr", v |-> LineValues(SubSeq(srcLines, 1, n))]
    /\ (Repaired /\ (jsonText = <<>> \/ jsonText[1] # "[")) => ~repaired.ok

(***************************************************************************)
(* Recorded results survive the other operations                           *)
(***************************************************************************)
\* C29: no step of the application loses a recorded result: every meeting of
\* the user is still among the user's meetings after the step, with its
\* transcript and summary, and if it had a translation it still has one.
C29_ResultsNeverLost ==
    [][ \A m \in MeetingsOf(currentUser) :
            \E n \in MeetingsOf(currentUser') :
                /\ n.id = m.id
                /\ n.transcript = m.transcript
                /\ n.summary = m.summary
                /\ m.translatedSummary # NoSummary
                      => n.translatedSummary # NoSummary ]_vars

(***************************************************************************)
(* What transcribeAudioChunk returns as a transcript                       *)
(***************************************************************************)
ChunkSucceeded == DOMAIN chunkResult # {} /\ chunkResult.ok

IsTranscriptLine(x) ==
    /\ x.t = "obj"
    /\ {speakerKey, timestampKey, textKey} \subseteq DOMAIN x.v

\* C25: whatever transcribeAudioChunk returns as a transcript, parsed as it
\* came or after repair, is an array whose every element is an object with a
\* speaker, a timestamp and a text.
C25_ReturnedLinesComplete ==
    ChunkSucceeded =>
        /\ chunkResult.val.t = "arr"
        /\ \A k \in 1..Len(chunkResult.val.v) : IsTranscriptLine(chunkResult.val.v[k])

(***************************************************************************)
(* The copied sample ranges                                                *)
(***************************************************************************)
AllSliced == DOMAIN audio # {} /\ Len(sliced) = sliceCount(audio)

\* C26: the ranges of samples copied into the chunk buffers start at 0, each
\* starts where the one before ended, the last ends at the length of the
\* audio, and no range is longer than the buffer made for it.
C26_SamplesPartitioned ==
    /\ \A k \in 1..Len(sliced) :
          /\ sliced[k].startOffset = (IF k = 1 THEN 0 ELSE sliced[k - 1].endOffset)
          /\ sliced[k].endOffset - sliced[k].startOffset <= sliced[k].bufferLength
    /\ AllSliced => sliced[Len(sliced)].endOffset = audio.length

(***************************************************************************)
(* One stored user per email                                               *)
(***************************************************************************)
EmailTaken(data, email) ==
    \E k \in 1..Len(data.users) : toLowerCase(data.users[k].email) = toLowerCase(email)

UniqueEmails ==
    \A a \in 1..Len(authData.users) : \A b \in 1..Len(authData.users) :
        toLowerCase(authData.users[a].email) = toLowerCase(authData.users[b].email)
            => a = b

\* C30: starting from the seeded store, after any signups, logins, logouts
\* and updateUser calls no two stored users have the same email ignoring
\* case, and a signup with an email that is stored (ignoring case) returns
\* the error and leaves the stored users and the session as they were.
C30_EmailsUnique ==
    /\ [](DOMAIN authData # {} => UniqueEmails)
    /\ [][ (authResult'.op = "signup" /\ EmailTaken(authData, authResult'.email)) =>
              /\ authResult'.error = MsgUserExists
              /\ authResult'.user = NoUser
              /\ authData' = authData ]_vars

C30_Witness ==
    /\ DOMAIN authData # {}
    /\ Len(authData.users) = 3
    /\ authData.users[3].email = <<"N", "E", "W">> \o AtAudiomax
    /\ authData.users[2].email = <<"D", "e", "m", "o">> \o AtAudiomax
    /\ authResult.op = "signup" /\ authResult.error = MsgUserExists
    /\ authResult.email = <<"n", "e", "w">> \o AtAudiomax

====
